---- MODULE Spec2Model ----
(***************************************************************************)
(* A model of codepad's multi-caret text editing engine                    *)
(* (src/codepad/editor/codebox.h): the line store editor_context, the      *)
(* caret set codebox_editor::_caret_set and the edit transaction           *)
(* codebox_editor::_modify_iterator.                                       *)
(*                                                                         *)
(* Text is a sequence of characters; a character is a one-character        *)
(* string, with "CR" and "LF" standing for U'\r' and U'\n'.  A size_t is   *)
(* modelled by the signed integer that has the same two's complement bit   *)
(* pattern, so a wrapped value such as size_t(-2) is the integer -2 and    *)
(* unsigned comparison is ULess below.  The model is the debug build       *)
(* (NDEBUG undefined): assertions are active and _modifying exists.        *)
(***************************************************************************)
EXTENDS Integers, Sequences, FiniteSets, TLC

VARIABLES
    input,              \* the contents of the file load_from_file reads
    output,             \* the contents of the file save_to_file wrote
    blocks,             \* editor_context::_blocks
    le,                 \* codebox_editor::_le
    insert,             \* codebox_editor::_insert
    carets,             \* codebox_editor::_cset.carets
    modifying,          \* codebox_editor::_modifying
    mi,                 \* the _modify_iterator of the open transaction
    opened,             \* the number of _modify_iterators started and not ended
    pc,                 \* where the program is
    key,                \* the event whose handler is running
    txns,               \* the number of transactions completed
    notified,           \* the number of times editor_context::modified was invoked
    fail,               \* how the program stopped, "none" while it runs
    hist,               \* history: what the last operation started from
    selecting,          \* codebox_editor::_cset.selecting
    current_selection,  \* codebox_editor::_cset.current_selection
    predrag,            \* codebox_editor::_predrag
    predrag_pos,        \* the caret position _predrag_pos hits
    task_st,            \* async_task::_st of every task
    task_pc,            \* where the thread of every task is in _run
    pool_lst,           \* async_task_pool::_lst, the tokens it holds
    pool_pc,            \* where the pool thread is
    pool_log,           \* history: the calls of the pool thread that returned
    active,             \* interaction_manager::_active
    dispatched          \* history: the last event _dispatch_event handled

vars == <<input, output, blocks, le, insert, carets, modifying, mi, opened, pc, key, txns,
          notified, fail, hist, selecting, current_selection, predrag, predrag_pos,
          task_st, task_pc, pool_lst, pool_pc, pool_log, active, dispatched>>

\* the variables of the task pool and of the interaction manager
extVars == <<task_st, task_pc, pool_lst, pool_pc, pool_log, active, dispatched>>

(***************************************************************************)
(* Bounds of the model.                                                    *)
(***************************************************************************)
\* the longest generated file text
MaxTextLen == 4
\* the caret positions of the caret-set specification: lines x columns
GridLines == 2
GridCols == 3
\* the most entries a caret set is grown to
MaxCarets == 3
\* the longest generated text of an edited document
MaxEditTextLen == 3
\* the most entries the mouse grows the caret set of an edited document to
MaxEditCarets == 2
\* the most transactions of one run
MaxTxns == 2
\* the number of tasks run_task creates
MaxTasks == 2

(***************************************************************************)
(* editor_context: lines, blocks, load and save.                           *)
(***************************************************************************)
CR == "CR"
LF == "LF"

\* enum class line_ending
line_ending == {"none", "r", "n", "rn"}

\* block::advised_lines is 1000 in the source; the model scales it to 2 so
\* that a loaded document of a few lines has more than one block.
advised_lines == 2

\* editor_context::line
line(c, t) == [content |-> c, ending_type |-> t]

\* s.substr(pos) and s.substr(0, n) for 0 <= pos, n <= Len(s)
substr_from(s, pos) == SubSeq(s, pos + 1, Len(s))
substr_to(s, n) == SubSeq(s, 1, n)

\* a faulty _init_append_line that opens a block one line early
init_append_line_early(bs, s, end) ==
    IF Len(bs[Len(bs)]) = advised_lines - 1
    THEN Append(bs, <<line(s, end)>>)
    ELSE [bs EXCEPT ![Len(bs)] = Append(@, line(s, end))]

init_append_line(bs, s, end) ==
    IF Len(bs[Len(bs)]) = advised_lines
    THEN Append(bs, <<line(s, end)>>)
    ELSE [bs EXCEPT ![Len(bs)] = Append(@, line(s, end))]

\* the loop of load_from_file over fullcontent, from character i on
RECURSIVE load_loop(_, _, _, _, _)
load_loop(text, i, last, nss, bs) ==
    IF i > Len(text)
    THEN [last |-> last, nss |-> nss, bs |-> bs]
    ELSE IF last = CR
         THEN load_loop(text, i + 1, text[i], <<>>,
                        init_append_line(bs, nss, IF text[i] = LF THEN "rn" ELSE "r"))
         ELSE IF text[i] = LF
              THEN load_loop(text, i + 1, text[i], <<>>, init_append_line(bs, nss, "n"))
              ELSE IF text[i] # CR
                   THEN load_loop(text, i + 1, text[i], Append(nss, text[i]), bs)
                   ELSE load_loop(text, i + 1, text[i], nss, bs)

\* the document load_from_file builds from the text of the file
\* the end of load_from_file, r what the loop yields
load_end(r) ==
    IF r.last = CR
    THEN init_append_line(init_append_line(r.bs, r.nss, "r"), <<>>, "none")
    ELSE init_append_line(r.bs, r.nss, "none")

\* the document load_from_file builds from the text of the file
load_from_file(text) == load_end(load_loop(text, 1, "NUL", <<>>, <<<<>>>>))

\* all lines of the document in order: begin(), ++, ... , before_end()
RECURSIVE all_lines(_)
all_lines(bs) == IF bs = <<>> THEN <<>> ELSE bs[1] \o all_lines(Tail(bs))

\* editor_context::num_lines
num_lines(bs) == Len(all_lines(bs))

ending_text(t) ==
    CASE t = "n" -> <<LF>>
      [] t = "r" -> <<CR>>
      [] t = "rn" -> <<CR, LF>>
      [] t = "none" -> <<>>

\* the loop of save_to_file: it stops at before_end(), the last line
RECURSIVE save_loop(_, _)
save_loop(ls, i) ==
    IF i = Len(ls)
    THEN ls[i].content \o ending_text(ls[i].ending_type)
    ELSE ls[i].content \o ending_text(ls[i].ending_type) \o save_loop(ls, i + 1)

\* the assertion of save_to_file: a line is the last one iff its ending is none
save_assertion(bs) ==
    LET ls == all_lines(bs)
    IN  \A i \in 1..Len(ls) : (i = Len(ls)) = (ls[i].ending_type = "none")

save_to_file(bs) == save_loop(all_lines(bs), 1)

(***************************************************************************)
(* caret_position and codebox_editor::_caret_set.                          *)
(***************************************************************************)
\* a < b for two size_t values (unsigned comparison of the bit patterns)
ULess(a, b) == IF (a >= 0) = (b >= 0) THEN a < b ELSE a >= 0

caret_position(l, c) == [line |-> l, column |-> c]

\* operator< and operator<= of caret_position
pos_lt(p1, p2) ==
    IF p1.line = p2.line THEN ULess(p1.column, p2.column) ELSE ULess(p1.line, p2.line)
pos_le(p1, p2) == ~pos_lt(p2, p1)

\* std::min, std::max on caret_position
pos_min(a, b) == IF pos_lt(b, a) THEN b ELSE a
pos_max(a, b) == IF pos_lt(a, b) THEN b ELSE a

\* an entry of the multimap: the key is the anchor, the value's selection_end
\* (baseline and the rendering caches are not modelled)
caret_entry(a, e) == [first |-> a, selection_end |-> e]

\* std::multimap::lower_bound: the first entry whose key is not less than k
lower_bound(mp, k) ==
    IF \E i \in 1..Len(mp) : ~pos_lt(mp[i].first, k)
    THEN CHOOSE i \in 1..Len(mp) :
            /\ ~pos_lt(mp[i].first, k)
            /\ \A j \in 1..(i - 1) : pos_lt(mp[j].first, k)
    ELSE Len(mp) + 1

\* std::multimap::insert: after the entries whose key is not greater
multimap_insert_at(mp, e) ==
    IF \E i \in 1..Len(mp) : pos_lt(e.first, mp[i].first)
    THEN CHOOSE i \in 1..Len(mp) :
            /\ pos_lt(e.first, mp[i].first)
            /\ \A j \in 1..(i - 1) : ~pos_lt(e.first, mp[j].first)
    ELSE Len(mp) + 1

seq_insert(s, i, e) == SubSeq(s, 1, i - 1) \o <<e>> \o SubSeq(s, i, Len(s))
seq_erase(s, i) == SubSeq(s, 1, i - 1) \o SubSeq(s, i + 1, Len(s))

\* can_merge_selection: ok is the returned bool, (rm, rs) the out parameters,
\* which keep (mm, ms) when false is returned because add_caret passes
\* res.first and res.second.selection_end for both; asserted tells that the
\* assertion of line 519 failed
can_merge_selection(mm, ms, sm, ss) ==
    LET p1min == pos_min(mm, ms)
        p1max == pos_max(mm, ms)
        p2min == pos_min(sm, ss)
        p2max == pos_max(sm, ss)
        gmin == pos_min(p1min, p2min)
        gmax == pos_max(p1max, p2max)
    IN  IF mm = ms /\ pos_le(p2min, mm) /\ pos_le(mm, p2max)
        THEN [ok |-> TRUE, rm |-> sm, rs |-> ss, asserted |-> FALSE]
        ELSE IF sm = ss /\ pos_le(p1min, sm) /\ pos_le(sm, p1max)
        THEN [ok |-> TRUE, rm |-> mm, rs |-> ms, asserted |-> FALSE]
        ELSE IF pos_le(p1max, p2min) \/ pos_le(p2max, p1min)
        THEN [ok |-> FALSE, rm |-> mm, rs |-> ms, asserted |-> FALSE]
        ELSE [ok |-> TRUE,
              rm |-> IF pos_lt(mm, ms) THEN gmin ELSE gmax,
              rs |-> IF pos_lt(mm, ms) THEN gmax ELSE gmin,
              asserted |-> (mm = gmin /\ sm = gmax) \/ (mm = gmax /\ sm = gmin)]

\* the while loop of add_caret; maxv is minmaxv.second of the candidate
RECURSIVE add_caret_loop(_, _, _, _, _, _)
\* a faulty body that erases the entry but does not set merged
add_caret_body_no_flag(mp, beg, res, merged, asserted, maxv, r) ==
    IF r.ok
    THEN add_caret_loop(seq_erase(mp, beg), beg, caret_entry(r.rm, r.rs),
                        merged, asserted \/ r.asserted, maxv)
    ELSE add_caret_loop(mp, beg + 1, res, merged, asserted, maxv)

\* the body of the loop, r what can_merge_selection yields for res and *beg
add_caret_body(mp, beg, res, merged, asserted, maxv, r) ==
    IF r.ok
    THEN add_caret_loop(seq_erase(mp, beg), beg, caret_entry(r.rm, r.rs),
                        TRUE, asserted \/ r.asserted, maxv)
    ELSE add_caret_loop(mp, beg + 1, res, merged, asserted, maxv)

add_caret_loop(mp, beg, res, merged, asserted, maxv) ==
    IF beg <= Len(mp) /\ pos_le(pos_min(mp[beg].first, mp[beg].selection_end), maxv)
    THEN add_caret_body(mp, beg, res, merged, asserted, maxv,
                        can_merge_selection(res.first, res.selection_end,
                                            mp[beg].first, mp[beg].selection_end))
    ELSE [mp |-> mp, res |-> res, merged |-> merged, asserted |-> asserted]

\* a faulty start that does not step back from lower_bound
add_caret_beg_no_back(mp, c) == lower_bound(mp, pos_min(c.first, c.selection_end))

\* where add_caret starts to look: lower_bound of the candidate's minimum,
\* one entry back unless that is the first entry
add_caret_beg(mp, c) ==
    LET beg == lower_bound(mp, pos_min(c.first, c.selection_end))
    IN  IF beg # 1 THEN beg - 1 ELSE beg

\* add_caret: mp is the map afterwards, it the index of the inserted entry,
\* merged the out parameter
\* the last line of add_caret, mp.insert(res), r what the loop yields
add_caret_insert(r, ins) ==
    [mp |-> seq_insert(r.mp, ins, r.res), it |-> ins,
     merged |-> r.merged, asserted |-> r.asserted]

add_caret_end(r) == add_caret_insert(r, multimap_insert_at(r.mp, r.res))

add_caret(mp, c) ==
    add_caret_end(add_caret_loop(mp, add_caret_beg(mp, c), c, FALSE, FALSE,
                                 pos_max(c.first, c.selection_end)))

(***************************************************************************)
(* editor_context: line handles and structural edits.  A line_iterator is  *)
(* <<block, line>>, both counted from 1; NoIter is what an operation       *)
(* yields where the source has undefined behaviour or a failed assertion,   *)
(* NoDoc what a structural edit yields there.                              *)
(***************************************************************************)
NoIter == <<0, 0>>
NoDoc == <<>>

\* editor_context::begin
begin_iter == <<1, 1>>

\* line_iterator_base::operator*
deref(bs, it) == bs[it[1]][it[2]]

\* line_iterator_base::operator++: past the last line of the last block it
\* reads _blocks.end(), which is undefined
iter_inc(bs, it) ==
    IF it[2] < Len(bs[it[1]])
    THEN <<it[1], it[2] + 1>>
    ELSE IF it[1] < Len(bs) THEN <<it[1] + 1, 1>> ELSE NoIter

\* a faulty operator-- that enters the previous block at its first line
iter_dec_first(bs, it) ==
    IF it[2] > 1
    THEN <<it[1], it[2] - 1>>
    ELSE IF it[1] > 1 THEN <<it[1] - 1, 1>> ELSE NoIter

\* line_iterator_base::operator--: before the first line of the first block
\* it reads before _blocks.begin(), which is undefined
iter_dec(bs, it) ==
    IF it[2] > 1
    THEN <<it[1], it[2] - 1>>
    ELSE IF it[1] > 1 THEN <<it[1] - 1, Len(bs[it[1] - 1])>> ELSE NoIter

\* editor_context::_at_impl from block i on: NoIter is assert(false)
RECURSIVE at_impl(_, _, _)
at_impl(bs, i, v) ==
    IF i > Len(bs)
    THEN NoIter
    ELSE IF ULess(v, Len(bs[i]))
         THEN <<i, v + 1>>
         ELSE at_impl(bs, i + 1, v - Len(bs[i]))

\* editor_context::at
at(bs, v) == at_impl(bs, 1, v)

\* editor_context::before_end
before_end(bs) == <<Len(bs), Len(bs[Len(bs)])>>

\* editor_context::insert_after: the document and the handle of the new line
insert_after(bs, it, ln) ==
    [bs |-> [bs EXCEPT ![it[1]] = seq_insert(@, it[2] + 1, ln)],
     it |-> <<it[1], it[2] + 1>>]

\* editor_context::_do_erase
do_erase(bs, it) ==
    IF Len(bs[it[1]]) = 1
    THEN seq_erase(bs, it[1])
    ELSE [bs EXCEPT ![it[1]] = seq_erase(@, it[2])]

\* editor_context::erase_after: the document, or NoDoc where ++it is undefined
erase_after(bs, it) ==
    IF iter_inc(bs, it) = NoIter THEN NoDoc ELSE do_erase(bs, iter_inc(bs, it))

\* editor_context::erase (the document afterwards; both branches erase it)
erase(bs, it) == do_erase(bs, it)

\* str_t::length of the line at a handle
line_length(bs, it) == Len(deref(bs, it).content)

(***************************************************************************)
(* codebox_editor::_modify_iterator.  An operation takes the document bs   *)
(* and the iterator m and yields [bs, m, fail]: fail is "none", or how the *)
(* program stops: "assert" (a failed assertion), "out_of_range" (a str_t   *)
(* member throws std::out_of_range, which nothing catches) or "ub" (the    *)
(* next step has undefined behaviour).  bs and m are then the document and *)
(* the iterator as they are where the program stops.                       *)
(***************************************************************************)
Done(bs, m) == [bs |-> bs, m |-> m, fail |-> "none"]
Stop(bs, m, f) == [bs |-> bs, m |-> m, fail |-> f]

\* s.substr(0, n) for any size_t n: the count is clipped to the length
substr_clip(s, n) == IF ULess(Len(s), n) THEN s ELSE SubSeq(s, 1, n)

set_content(bs, it, c) == [bs EXCEPT ![it[1]][it[2]].content = c]
set_ending(bs, it, t) == [bs EXCEPT ![it[1]][it[2]].ending_type = t]

\* a faulty _fixup_pos that shifts the line but never the column
fixup_pos_no_dx(m, pos) == caret_position(pos.line + m.dy, pos.column)

\* _modify_iterator::_fixup_pos
fixup_pos(m, pos) ==
    LET l == pos.line + m.dy
    IN  caret_position(l, IF l = m.ly THEN pos.column + m.dx ELSE pos.column)

\* the if of _on_set_rpos, m1 the iterator with _smin and _smax set, lit
\* what at(_ly) yields
on_set_rpos_line(bs, m, m1, lit) ==
    IF m.ly # m1.smin.line
    THEN IF lit = NoIter
         THEN Stop(bs, [m1 EXCEPT !.dx = 0, !.ly = m1.smin.line], "assert")
         ELSE Done(bs, [m1 EXCEPT !.dx = 0, !.ly = m1.smin.line, !.lit = lit])
    ELSE Done(bs, m1)

on_set_rpos_minmax(bs, m, m1) == on_set_rpos_line(bs, m, m1, at(bs, m1.smin.line))

\* _modify_iterator::_on_set_rpos
on_set_rpos(bs, m) ==
    on_set_rpos_minmax(bs, m,
        [m EXCEPT !.smin = pos_min(m.rpos.first, m.rpos.selection_end),
                  !.smax = pos_max(m.rpos.first, m.rpos.selection_end)])

\* a faulty loop that erases no line
erase_between_none(bs, lit, sminline, smaxline) ==
    [bs |-> bs, smaxline |-> smaxline, ub |-> FALSE]

\* the for loop of _delete_selection: erase_after(_lit) while
\* _smin.line + 1 < _smax.line, counting _smax.line down.  It yields the
\* document and _smax.line where it ends, ub where it ends at an
\* erase_after(_lit) with no line after _lit.
RECURSIVE erase_between(_, _, _, _)
erase_between(bs, lit, sminline, smaxline) ==
    IF ULess(sminline + 1, smaxline)
    THEN IF erase_after(bs, lit) = NoDoc
         THEN [bs |-> bs, smaxline |-> smaxline, ub |-> TRUE]
         ELSE erase_between(erase_after(bs, lit), lit, sminline, smaxline - 1)
    ELSE [bs |-> bs, smaxline |-> smaxline, ub |-> FALSE]

\* the end of _delete_selection and of the commands: the caret collapses
collapse(m) == [m EXCEPT !.smax = m.smin, !.rpos = caret_entry(m.smin, m.smin)]

\* a faulty join that also drops the character at the selection's end
delete_selection_nl_skip(m, m1, bs1, nl) ==
    IF ULess(Len(nl.content), m.smax.column)
    THEN Stop(bs1, m1, "out_of_range")
    ELSE Done(erase_after(
                  set_ending(
                      set_content(bs1, m.lit,
                          substr_clip(deref(bs1, m.lit).content, m.smin.column)
                              \o substr_from(nl.content, m.smax.column + 1)),
                      m.lit, nl.ending_type),
                  m.lit),
              collapse([m1 EXCEPT !.dx = @ - (m.smax.column - m.smin.column)]))

\* the else branch of _delete_selection after its loop, which left the
\* document bs1 and the iterator m1: nl, the line after _lit, is joined to
\* _lit and erased
delete_selection_nl(m, m1, bs1, nl) ==
    IF ULess(Len(nl.content), m.smax.column)
    THEN Stop(bs1, m1, "out_of_range")
    ELSE Done(erase_after(
                  set_ending(
                      set_content(bs1, m.lit,
                          substr_clip(deref(bs1, m.lit).content, m.smin.column)
                              \o substr_from(nl.content, m.smax.column)),
                      m.lit, nl.ending_type),
                  m.lit),
              collapse([m1 EXCEPT !.dx = @ - (m.smax.column - m.smin.column)]))

\* the else branch of _delete_selection from its loop on: e is what the
\* loop yields, m1 the iterator after it
delete_selection_loop(m, m1, e) ==
    IF e.ub
    THEN Stop(e.bs, m1, "ub")
    ELSE IF iter_inc(e.bs, m.lit) = NoIter
    THEN Stop(e.bs, m1, "ub")
    ELSE delete_selection_nl(m, m1, e.bs, deref(e.bs, iter_inc(e.bs, m.lit)))

delete_selection_join(m, e) ==
    delete_selection_loop(m, [m EXCEPT !.dy = @ - (m.smax.line - m.smin.line),
                                       !.smax = caret_position(e.smaxline, m.smax.column)], e)

\* _modify_iterator::_delete_selection
delete_selection(bs, m) ==
    IF m.smin.line = m.smax.line
    THEN IF ULess(line_length(bs, m.lit), m.smax.column)
         THEN Stop(bs, m, "out_of_range")
         ELSE Done(set_content(bs, m.lit,
                       substr_clip(deref(bs, m.lit).content, m.smin.column)
                           \o substr_from(deref(bs, m.lit).content, m.smax.column)),
                   collapse([m EXCEPT !.dx = @ - (m.smax.column - m.smin.column)]))
    ELSE delete_selection_join(m, erase_between(bs, m.lit, m.smin.line, m.smax.line))

\* a faulty split that gives the configured ending to the new line and
\* leaves the tag of the line at _lit
insert_newline_split_tags(bs, m, ending, old, r) ==
    Done(set_ending(set_content(r.bs, m.lit, substr_to(old.content, m.smin.column)),
                    r.it, ending),
         collapse([m EXCEPT !.dy = @ + 1, !.ly = @ + 1,
                            !.dx = @ - m.smin.column,
                            !.lit = r.it,
                            !.smin = caret_position(m.smin.line + 1, 0)]))

\* a faulty split that does not count the column delta down
insert_newline_split_keep_dx(bs, m, ending, old, r) ==
    Done(set_ending(set_content(r.bs, m.lit, substr_to(old.content, m.smin.column)),
                    m.lit, ending),
         collapse([m EXCEPT !.dy = @ + 1, !.ly = @ + 1,
                            !.lit = r.it,
                            !.smin = caret_position(m.smin.line + 1, 0)]))

\* the newline branch of insert_char once insert_after yielded r: old is
\* the line at _lit before
insert_newline_split(bs, m, ending, old, r) ==
    Done(set_ending(set_content(r.bs, m.lit, substr_to(old.content, m.smin.column)),
                    m.lit, ending),
         collapse([m EXCEPT !.dy = @ + 1, !.ly = @ + 1,
                            !.dx = @ - m.smin.column,
                            !.lit = r.it,
                            !.smin = caret_position(m.smin.line + 1, 0)]))

\* insert_char after the selection is gone, c = U'\n'
insert_newline(bs, m, ending) ==
    IF ULess(line_length(bs, m.lit), m.smin.column)
    THEN Stop(bs, [m EXCEPT !.dy = @ + 1, !.ly = @ + 1, !.dx = @ - m.smin.column],
              "out_of_range")
    ELSE insert_newline_split(bs, m, ending, deref(bs, m.lit),
             insert_after(bs, m.lit,
                          line(substr_from(deref(bs, m.lit).content, m.smin.column),
                               deref(bs, m.lit).ending_type)))

\* a faulty insert_char that overwrites in overwrite mode also where the
\* caret had a selection
insert_other_at_no_sel(bs, m, c, ins, had_selection, content, m1) ==
    IF ULess(Len(content), m.smin.column)
    THEN Stop(bs, m, IF ins \/ had_selection THEN "out_of_range" ELSE "ub")
    ELSE IF ins \/ m.smin.column = Len(content)
    THEN Done(set_content(bs, m.lit, seq_insert(content, m.smin.column + 1, c)),
              collapse([m1 EXCEPT !.dx = @ + 1]))
    ELSE Done(set_content(bs, m.lit, [content EXCEPT ![m.smin.column + 1] = c]),
              collapse(m1))

\* insert_char after the selection is gone, c # U'\n': content is the text
\* of the line at _lit, m1 the iterator with _smin.column counted up
insert_other_at(bs, m, c, ins, had_selection, content, m1) ==
    IF ULess(Len(content), m.smin.column)
    THEN Stop(bs, m, IF ins \/ had_selection THEN "out_of_range" ELSE "ub")
    ELSE IF ins \/ had_selection \/ m.smin.column = Len(content)
    THEN Done(set_content(bs, m.lit, seq_insert(content, m.smin.column + 1, c)),
              collapse([m1 EXCEPT !.dx = @ + 1]))
    ELSE Done(set_content(bs, m.lit, [content EXCEPT ![m.smin.column + 1] = c]),
              collapse(m1))

insert_other(bs, m, c, ins, had_selection) ==
    insert_other_at(bs, m, c, ins, had_selection, deref(bs, m.lit).content,
                    [m EXCEPT !.smin = caret_position(m.smin.line, m.smin.column + 1)])

\* insert_char once the selection is gone: d is what _delete_selection
\* yielded, or the state as it was when there was no selection
insert_char_at(c, ins, ending, had_selection, d) ==
    IF d.fail # "none"
    THEN d
    ELSE IF c = LF
    THEN insert_newline(d.bs, d.m, ending)
    ELSE insert_other(d.bs, d.m, c, ins, had_selection)

\* _modify_iterator::insert_char; ins is _cb->_insert, ending is _cb->_le
insert_char(bs, m, c, ins, ending) ==
    insert_char_at(c, ins, ending, m.smin # m.smax,
                   IF m.smin # m.smax
                   THEN delete_selection(bs, [m EXCEPT !.modified = TRUE])
                   ELSE Done(bs, [m EXCEPT !.modified = TRUE]))

\* the branch of delete_char_before at column 0 of a line but the first:
\* the line at _lit is joined to the one before, prevline, and erased; m1
\* is the iterator with _smin.line, _dy and _ly counted down
delete_char_before_join(bs, m, m1, prevline) ==
    IF prevline = NoIter
    THEN Stop(bs, m1, "ub")
    ELSE IF m.dx # 0
    THEN Stop(bs, m1, "assert")
    ELSE Done(erase_after(
                  set_ending(
                      set_content(bs, prevline,
                                  deref(bs, prevline).content \o deref(bs, m.lit).content),
                      prevline, deref(bs, m.lit).ending_type),
                  prevline),
              collapse([m1 EXCEPT
                  !.dx = @ + line_length(bs, prevline),
                  !.lit = prevline,
                  !.smin = caret_position(m.smin.line - 1, line_length(bs, prevline))]))

\* the branch of delete_char_before inside a line, m1 the iterator with
\* _dx and _smin.column counted down
delete_char_before_erase(bs, m, m1) ==
    IF ULess(line_length(bs, m.lit), m1.smin.column)
    THEN Stop(bs, m1, "out_of_range")
    ELSE Done(set_content(bs, m.lit, seq_erase(deref(bs, m.lit).content, m.smin.column)),
              collapse(m1))

\* a faulty delete_char_before that does not test for the position (0,0)
delete_char_before_at_no_origin(bs, m, m0) ==
    IF m.smin # m.smax
    THEN delete_selection(bs, m0)
    ELSE IF m.smin.column = 0
    THEN delete_char_before_join(bs, m,
             [m0 EXCEPT !.dy = @ - 1, !.ly = @ - 1,
                        !.smin = caret_position(m.smin.line - 1, 0)],
             iter_dec(bs, m.lit))
    ELSE delete_char_before_erase(bs, m,
             [m0 EXCEPT !.dx = @ - 1,
                        !.smin = caret_position(m.smin.line, m.smin.column - 1)])

\* delete_char_before, m0 the iterator with _modified set
delete_char_before_at(bs, m, m0) ==
    IF m.smin # m.smax
    THEN delete_selection(bs, m0)
    ELSE IF m.smin = caret_position(0, 0)
    THEN Done(bs, m0)
    ELSE IF m.smin.column = 0
    THEN delete_char_before_join(bs, m,
             [m0 EXCEPT !.dy = @ - 1, !.ly = @ - 1,
                        !.smin = caret_position(m.smin.line - 1, 0)],
             iter_dec(bs, m.lit))
    ELSE delete_char_before_erase(bs, m,
             [m0 EXCEPT !.dx = @ - 1,
                        !.smin = caret_position(m.smin.line, m.smin.column - 1)])

\* _modify_iterator::delete_char_before
delete_char_before(bs, m) == delete_char_before_at(bs, m, [m EXCEPT !.modified = TRUE])

\* a faulty join that leaves the tag of the line at _lit
delete_char_after_join_keep_tag(bs, m, m0, nextline) ==
    IF nextline = NoIter
    THEN Stop(bs, [m0 EXCEPT !.dy = @ - 1], "ub")
    ELSE Done(erase(
                  set_content(bs, m.lit,
                              deref(bs, m.lit).content \o deref(bs, nextline).content),
                  nextline),
              [m0 EXCEPT !.dy = @ - 1, !.dx = @ + line_length(bs, m.lit)])

\* the branch of delete_char_after at the end of a line but the last: the
\* line after _lit, nextline, is joined to it and erased
delete_char_after_join(bs, m, m0, nextline) ==
    IF nextline = NoIter
    THEN Stop(bs, [m0 EXCEPT !.dy = @ - 1], "ub")
    ELSE Done(erase(
                  set_ending(
                      set_content(bs, m.lit,
                                  deref(bs, m.lit).content \o deref(bs, nextline).content),
                      m.lit, deref(bs, nextline).ending_type),
                  nextline),
              [m0 EXCEPT !.dy = @ - 1, !.dx = @ + line_length(bs, m.lit)])

\* a faulty delete_char_after that does not test for the last line
delete_char_after_at_no_last(bs, m, m0) ==
    IF m.smin # m.smax
    THEN delete_selection(bs, m0)
    ELSE IF ULess(m.smin.column, line_length(bs, m.lit))
    THEN Done(set_content(bs, m.lit, seq_erase(deref(bs, m.lit).content, m.smin.column + 1)),
              [m0 EXCEPT !.dx = @ - 1])
    ELSE delete_char_after_join(bs, m, m0, iter_inc(bs, m.lit))

\* a faulty delete_char_after that leaves _dx when it erases a character
delete_char_after_at_no_dx(bs, m, m0) ==
    IF m.smin # m.smax
    THEN delete_selection(bs, m0)
    ELSE IF ULess(m.smin.column, line_length(bs, m.lit))
    THEN Done(set_content(bs, m.lit, seq_erase(deref(bs, m.lit).content, m.smin.column + 1)),
              m0)
    ELSE IF ULess(m.smin.line + 1, num_lines(bs))
    THEN delete_char_after_join(bs, m, m0, iter_inc(bs, m.lit))
    ELSE Done(bs, m0)

\* delete_char_after, m0 the iterator with _modified set
delete_char_after_at(bs, m, m0) ==
    IF m.smin # m.smax
    THEN delete_selection(bs, m0)
    ELSE IF ULess(m.smin.column, line_length(bs, m.lit))
    THEN Done(set_content(bs, m.lit, seq_erase(deref(bs, m.lit).content, m.smin.column + 1)),
              [m0 EXCEPT !.dx = @ - 1])
    ELSE IF ULess(m.smin.line + 1, num_lines(bs))
    THEN delete_char_after_join(bs, m, m0, iter_inc(bs, m.lit))
    ELSE Done(bs, m0)

\* _modify_iterator::delete_char_after
delete_char_after(bs, m) == delete_char_after_at(bs, m, [m EXCEPT !.modified = TRUE])

(***************************************************************************)
(* Loading and saving a file: SpecLoad.                                    *)
(***************************************************************************)
Alphabet == {"a", "b", CR, LF}

\* the file texts: every text over the alphabet up to MaxTextLen characters
Texts == UNION {[1..n -> Alphabet] : n \in 0..MaxTextLen}

\* the tasks run_task can create
Tasks == 1..MaxTasks

\* the pool as constructed: no task was created
NoPool ==
    /\ task_st = [t \in Tasks |-> "not_initiated"]
    /\ task_pc = [t \in Tasks |-> "none"]
    /\ pool_lst = {}
    /\ pool_pc = [op |-> "idle"]
    /\ pool_log = [last |-> [op |-> "none"], won |-> {}, calls |-> 0]

\* std::unique_ptr<mode_t>() and the nullptr an activator returns
nullptr == 0

\* the interaction manager as constructed: no mode is active
NoManager ==
    /\ active = nullptr
    /\ dispatched = [event |-> "none"]

\* the editor's variables while no editor takes part
NoEditor ==
    /\ le = "n"
    /\ insert = TRUE
    /\ carets = <<>>
    /\ modifying = FALSE
    /\ mi = [open |-> FALSE]
    /\ opened = 0
    /\ key = "none"
    /\ txns = 0
    /\ notified = 0
    /\ hist = [op |-> "none"]
    /\ selecting = FALSE
    /\ current_selection = caret_entry(caret_position(0, 0), caret_position(0, 0))
    /\ predrag = FALSE
    /\ predrag_pos = caret_position(0, 0)
    /\ NoPool
    /\ NoManager

editorVars == <<le, insert, carets, modifying, mi, opened, key, txns, notified, hist,
                selecting, current_selection, predrag, predrag_pos, extVars>>

InitLoad ==
    /\ input \in Texts
    /\ output = <<>>
    /\ blocks = <<>>
    /\ pc = "created"
    /\ fail = "none"
    /\ NoEditor

\* editor_context::load_from_file on a fresh editor_context
LoadFile ==
    /\ pc = "created"
    /\ fail = "none"
    /\ blocks' = load_from_file(input)
    /\ pc' = "loaded"
    /\ UNCHANGED <<input, output, fail, editorVars>>

\* editor_context::save_to_file
SaveFile ==
    /\ pc = "loaded"
    /\ fail = "none"
    /\ IF save_assertion(blocks)
       THEN /\ output' = save_to_file(blocks)
            /\ pc' = "saved"
            /\ fail' = fail
       ELSE /\ fail' = "assert"
            /\ UNCHANGED <<output, pc>>
    /\ UNCHANGED <<input, blocks, editorVars>>

NextLoad == LoadFile \/ SaveFile

SpecLoad == InitLoad /\ [][NextLoad]_vars

\* C1: saving the document that load produced from a text reproduces the
\* text exactly, save(load(b)) = b, for every text of ordinary characters
\* and CR, LF, CRLF terminators.
RoundTrip == pc = "saved" => output = input

(***************************************************************************)
(* Merge-inserts into a caret set: SpecCarets.                             *)
(***************************************************************************)
GridPositions == {caret_position(l, c) : l \in 0..(GridLines - 1), c \in 0..(GridCols - 1)}

InitCarets ==
    /\ input = <<>>
    /\ output = <<>>
    /\ blocks = <<>>
    /\ pc = "carets"
    /\ fail = "none"
    /\ le = "n"
    /\ insert = TRUE
    /\ carets = <<>>
    /\ modifying = FALSE
    /\ mi = [open |-> FALSE]
    /\ opened = 0
    /\ key = "none"
    /\ txns = 0
    /\ notified = 0
    /\ hist = [op |-> "none"]
    /\ selecting = FALSE
    /\ current_selection = caret_entry(caret_position(0, 0), caret_position(0, 0))
    /\ predrag = FALSE
    /\ predrag_pos = caret_position(0, 0)
    /\ NoPool
    /\ NoManager

\* the loop of codebox_editor::_is_in_selection
RECURSIVE is_in_selection_loop(_, _, _)
is_in_selection_loop(mp, cur, cp) ==
    IF cur <= Len(mp) /\ pos_le(pos_min(mp[cur].first, mp[cur].selection_end), cp)
    THEN IF /\ mp[cur].first # mp[cur].selection_end
            /\ pos_le(pos_min(mp[cur].first, mp[cur].selection_end), cp)
            /\ pos_le(cp, pos_max(mp[cur].first, mp[cur].selection_end))
         THEN TRUE
         ELSE is_in_selection_loop(mp, cur + 1, cp)
    ELSE FALSE

is_in_selection(mp, cp) ==
    LET cur == lower_bound(mp, cp)
    IN  is_in_selection_loop(mp, IF cur # 1 THEN cur - 1 ELSE cur, cp)

\* _caret_set::add_caret(carets, c) for a candidate c
AddCaret ==
    /\ pc = "carets"
    /\ fail = "none"
    /\ Len(carets) < MaxCarets
    /\ \E a \in GridPositions, e \in GridPositions :
          \E r \in {add_caret(carets, caret_entry(a, e))} :
              IF r.asserted
              THEN /\ fail' = "assert"
                   /\ UNCHANGED <<carets, hist>>
              ELSE /\ carets' = r.mp
                   /\ hist' = [op |-> "add_caret", carets |-> carets, c |-> caret_entry(a, e),
                               merged |-> r.merged, it |-> r.it]
                   /\ fail' = fail
    /\ UNCHANGED <<selecting, current_selection, predrag, predrag_pos, extVars, input, output, notified, blocks, pc, le, insert, modifying, mi, opened, key, txns>>

\* codebox_editor::_is_in_selection(cp) for a position cp
IsInSelection ==
    /\ pc = "carets"
    /\ fail = "none"
    /\ \E cp \in GridPositions :
          hist' = [op |-> "is_in_selection", carets |-> carets, cp |-> cp,
                   result |-> is_in_selection(carets, cp)]
    /\ UNCHANGED <<selecting, current_selection, predrag, predrag_pos, extVars, input, output, notified, blocks, pc, le, insert, carets, modifying, mi,
                   opened, key, txns, fail>>

NextCarets == AddCaret \/ IsInSelection

SpecCarets == InitCarets /\ [][NextCarets]_vars

range_min(e) == pos_min(e.first, e.selection_end)
range_max(e) == pos_max(e.first, e.selection_end)

\* the closed ranges of two entries share a position
Intersect(e1, e2) ==
    /\ pos_le(range_min(e1), range_max(e2))
    /\ pos_le(range_min(e2), range_max(e1))

\* a position lies strictly inside the range of an entry
StrictlyInside(p, e) == pos_lt(range_min(e), p) /\ pos_lt(p, range_max(e))

\* C2: after any sequence of merge-inserts from the empty set, the closed
\* ranges of two distinct entries never intersect (one shared boundary
\* point counts as intersecting).
NoOverlap ==
    pc = "carets" =>
        \A i \in 1..Len(carets), j \in 1..Len(carets) :
            i # j => ~Intersect(carets[i], carets[j])

PairSet(mp) == {mp[i] : i \in 1..Len(mp)}

\* C3: merge-inserting a pure caret that lies strictly inside the range of
\* an existing selection leaves the set of (anchor, selection_end) pairs as
\* it was.
Absorption ==
    (/\ pc = "carets"
     /\ hist.op = "add_caret"
     /\ hist.c.first = hist.c.selection_end
     /\ \E i \in 1..Len(hist.carets) :
           /\ hist.carets[i].first # hist.carets[i].selection_end
           /\ StrictlyInside(hist.c.first, hist.carets[i]))
    => PairSet(carets) = PairSet(hist.carets)

(***************************************************************************)
(* The editor on a loaded document: Spec.  The document is loaded and the  *)
(* line ending set as main() does it; the mouse builds the caret set, a    *)
(* key runs one transaction, one command for each caret:                   *)
(*   pc = "idle"  no handler runs                                          *)
(*   pc = "start" start() stopped after it set _modifying                  *)
(*   pc = "body"  in the loop of the key's handler, !ended() was true      *)
(*   pc = "next"  the command ran, next() is about to run                  *)
(*   pc = "end"   ended() was true, ~_modify_iterator_rsrc is about to run *)
(* hist keeps what the transaction in progress (or the last one) started   *)
(* from, what its last command started from (pre_bs, pre_m), and whether   *)
(* one of its commands changed the document (changed).                     *)
(***************************************************************************)
\* a faulty auto_set_line_ending for which r wins its ties
auto_set_line_ending_ties(bs) ==
    LET ls == all_lines(bs)
        n(t) == Cardinality({i \in 1..Len(ls) : ls[i].ending_type = t})
    IN  IF n("r") >= n("n") /\ n("r") >= n("rn")
        THEN "r"
        ELSE IF n("n") > n("rn") THEN "n" ELSE "rn"

\* codebox_editor::auto_set_line_ending
auto_set_line_ending(bs) ==
    LET ls == all_lines(bs)
        n(t) == Cardinality({i \in 1..Len(ls) : ls[i].ending_type = t})
    IN  IF n("r") > n("n") /\ n("r") > n("rn")
        THEN "r"
        ELSE IF n("n") > n("rn") THEN "n" ELSE "rn"

\* the texts of the edited documents
EditTexts == UNION {[1..n -> Alphabet] : n \in 0..MaxEditTextLen}

\* the positions _hit_test_for_caret can return: a line of the document and
\* a column up to its length
ValidPositions(bs) ==
    {p \in [line : 0..(num_lines(bs) - 1), column : 0..MaxEditTextLen] :
        p.column <= Len(all_lines(bs)[p.line + 1].content)}

\* the characters _on_keyboard_text is called with
TextKeys == {"Z", LF}
Keys == {"backspace", "del"} \cup TextKeys

\* main(): the codebox is created on a loaded context and
\* auto_set_line_ending is called; the caret set is empty
InitEditor(texts) ==
    /\ input \in texts
    /\ output = <<>>
    /\ blocks = load_from_file(input)
    /\ le = auto_set_line_ending(load_from_file(input))
    /\ insert = TRUE
    /\ carets = <<>>
    /\ modifying = FALSE
    /\ mi = [open |-> FALSE]
    /\ opened = 0
    /\ pc = "idle"
    /\ key = "none"
    /\ txns = 0
    /\ notified = 0
    /\ fail = "none"
    /\ hist = [op |-> "none"]
    /\ selecting = FALSE
    /\ current_selection = caret_entry(caret_position(0, 0), caret_position(0, 0))
    /\ predrag = FALSE
    /\ predrag_pos = caret_position(0, 0)
    /\ NoPool
    /\ NoManager

Init == InitEditor(EditTexts)

\* One mouse gesture with the left button: _on_mouse_down at p with the
\* control key as ctrl, _on_mouse_move to q, _on_mouse_lbutton_up; p and q
\* are among the positions P.  No key is pressed while the button is held.
\* The gestures come before the first transaction and grow the caret set
\* to n entries at most.
MouseGesture(P, n) ==
    /\ pc = "idle"
    /\ fail = "none"
    /\ txns = 0
    /\ \E p \in P, q \in P, ctrl \in BOOLEAN :
          IF is_in_selection(carets, p)
          THEN /\ carets' = <<caret_entry(p, p)>>
               /\ hist' = [op |-> "predrag"]
               /\ fail' = fail
          ELSE /\ ctrl => Len(carets) < n
               /\ \E r \in {add_caret(IF ctrl THEN carets ELSE <<>>, caret_entry(q, p))} :
                      IF r.asserted
                      THEN /\ fail' = "assert"
                           /\ UNCHANGED <<carets, hist>>
                      ELSE /\ carets' = r.mp
                           /\ hist' = [op |-> "select"]
                           /\ fail' = fail
    /\ UNCHANGED <<selecting, current_selection, predrag, predrag_pos, extVars, input, output, notified, blocks, le, insert, modifying, mi, opened, pc, key, txns>>

MouseSelect == MouseGesture(ValidPositions(blocks), MaxEditCarets)

\* _on_key_down with os::input::key::insert
ToggleInsert ==
    /\ pc = "idle"
    /\ fail = "none"
    /\ txns = 0
    /\ insert' = ~insert
    /\ UNCHANGED <<selecting, current_selection, predrag, predrag_pos, extVars, input, output, notified, blocks, le, carets, modifying, mi, opened, pc, key, txns,
                   fail, hist>>

\* the _modify_iterator as constructed, then start() up to _on_set_rpos
start(bs, mp) ==
    on_set_rpos(bs, [open |-> TRUE, modified |-> FALSE, newcs |-> <<>>,
                     lit |-> begin_iter, dx |-> 0, dy |-> 0, ly |-> 0, cur |-> 1,
                     rpos |-> mp[1], smin |-> mp[1].first, smax |-> mp[1].first])

\* what hist keeps of a transaction that key k starts
txn_hist(k) ==
    [op |-> "txn", key |-> k, blocks |-> blocks, carets |-> carets, ins |-> insert,
     ncmd |-> 0, pre_bs |-> blocks, pre_m |-> [open |-> FALSE],
     changed |-> FALSE, notified |-> notified,
     selecting |-> selecting, current_selection |-> current_selection]

\* whether add_caret(mp, c) erases the first entry of mp: the loop starts at
\* it and can_merge_selection accepts it
first_erased(mp, c) ==
    /\ add_caret_beg(mp, c) = 1
    /\ pos_le(pos_min(mp[1].first, mp[1].selection_end),
              pos_max(c.first, c.selection_end))
    /\ can_merge_selection(c.first, c.selection_end,
                           mp[1].first, mp[1].selection_end).ok

\* where _cur, taken as mp.begin() before the selection c was committed,
\* is in the set a.mp afterwards: 0 tells that its entry was erased
cur_after_commit(mp, c, a) ==
    IF first_erased(mp, c) THEN 0 ELSE IF a.it = 1 THEN 2 ELSE 1

\* start() while _cset.selecting: _cur and _rpos are read first, then
\* _end_selection() adds current_selection c to the caret set mp, a what
\* add_caret yields; mp is the caret set afterwards
start_selecting(bs, mp, c, a) ==
    IF a.asserted \/ (a.merged /\ at(bs, a.mp[a.it].first.line) = NoIter)
    THEN [m |-> [open |-> TRUE], fail |-> "assert", mp |-> mp]
    ELSE [m |-> [start(bs, mp).m EXCEPT !.cur = cur_after_commit(mp, c, a)],
          fail |-> start(bs, mp).fail, mp |-> a.mp]

\* A key event with a key of K, while fewer than n transactions were run:
\* the handler constructs a _modify_iterator_rsrc, which calls start(), and
\* tests ended().  With an empty caret set start() reads *carets.begin(),
\* which is undefined.  A start() that stops after its assertion leaves
\* pc = "start".
KeyPress(K, n) ==
    /\ pc = "idle"
    /\ fail = "none"
    /\ txns < n
    /\ \E k \in K :
          /\ hist' = txn_hist(k)
          /\ IF modifying
             THEN /\ fail' = "assert"
                  /\ UNCHANGED <<modifying, mi, opened, pc, key, carets, selecting>>
             ELSE /\ modifying' = TRUE
                  /\ opened' = opened + 1
                  /\ key' = k
                  /\ IF carets = <<>>
                     THEN /\ mi' = [open |-> TRUE]
                          /\ pc' = "start"
                          /\ fail' = "ub"
                          /\ UNCHANGED <<carets, selecting>>
                     ELSE IF selecting
                     THEN \E r \in {start_selecting(blocks, carets, current_selection,
                                         add_caret(carets, current_selection))} :
                              /\ mi' = r.m
                              /\ pc' = IF r.fail # "none" THEN "start" ELSE "body"
                              /\ fail' = r.fail
                              /\ carets' = r.mp
                              /\ selecting' = FALSE
                     ELSE \E r \in {start(blocks, carets)} :
                              /\ mi' = r.m
                              /\ pc' = IF r.fail # "none" THEN "start" ELSE "body"
                              /\ fail' = r.fail
                              /\ UNCHANGED <<carets, selecting>>
    /\ UNCHANGED <<current_selection, predrag, predrag_pos, extVars, input, output, notified, blocks,
                   le, insert, txns>>

KeyDown == KeyPress(Keys, MaxTxns)

\* the command the handler of key k issues for the current caret
command(bs, m, k, ins, ending) ==
    CASE k = "backspace" -> delete_char_before(bs, m)
      [] k = "del" -> delete_char_after(bs, m)
      [] OTHER -> insert_char(bs, m, k, ins, ending)

\* the body of the handler's loop: one command for the current caret
Command ==
    /\ pc = "body"
    /\ fail = "none"
    /\ key \in Keys
    /\ \E r \in {command(blocks, mi, key, insert, le)} :
           /\ hist' = [hist EXCEPT !.ncmd = @ + 1, !.pre_bs = blocks, !.pre_m = mi,
                                   !.changed = @ \/ r.bs # blocks]
           /\ blocks' = r.bs
           /\ mi' = r.m
           /\ pc' = IF r.fail # "none" THEN pc ELSE "next"
           /\ fail' = r.fail
    /\ UNCHANGED <<selecting, current_selection, predrag, predrag_pos, extVars, input, output, notified, le, insert, carets, modifying, opened, key, txns>>

\* next() after add_caret: m1 is the iterator with ++_cur done
next_cur(bs, m, mp, m1) ==
    IF m1.cur <= Len(mp)
    THEN on_set_rpos(bs,
             [m1 EXCEPT !.rpos = caret_entry(fixup_pos(m1, mp[m1.cur].first),
                                             fixup_pos(m1, mp[m1.cur].selection_end))])
    ELSE Done(bs, m1)

\* next() once add_caret yielded a; the baseline of a merged entry is
\* _get_caret_pos_x, which calls at() with the entry's line; ++_cur is
\* undefined when the entry of _cur was erased (cur = 0)
next_added(bs, m, mp, a) ==
    IF a.asserted
    THEN Stop(bs, m, "assert")
    ELSE IF a.merged /\ at(bs, a.mp[a.it].first.line) = NoIter
    THEN Stop(bs, m, "assert")
    ELSE IF m.cur = 0
    THEN Stop(bs, [m EXCEPT !.newcs = a.mp], "ub")
    ELSE next_cur(bs, m, mp, [m EXCEPT !.newcs = a.mp, !.cur = @ + 1])

\* _modify_iterator::next
next(bs, m, mp) == next_added(bs, m, mp, add_caret(m.newcs, m.rpos))

\* the loop's next() and its test of ended()
NextCaret ==
    /\ pc = "next"
    /\ fail = "none"
    /\ \E r \in {next(blocks, mi, carets)} :
           /\ mi' = r.m
           /\ pc' = IF r.fail # "none"
                    THEN pc
                    ELSE IF r.m.cur = Len(carets) + 1 THEN "end" ELSE "body"
           /\ fail' = r.fail
    /\ UNCHANGED <<selecting, current_selection, predrag, predrag_pos, extVars, input, output, notified, blocks, le, insert, carets, modifying, opened, key, txns,
                   hist>>

\* what _rebuild_selection_cache and _make_caret_visible need in end(): at()
\* finds the line of every anchor and selection_end
caches_ok(bs, mp) ==
    /\ mp # <<>>
    /\ \A i \in 1..Len(mp) :
          /\ at(bs, mp[i].first.line) # NoIter
          /\ at(bs, mp[i].selection_end.line) # NoIter

\* _modify_iterator::end, called by ~_modify_iterator_rsrc
End ==
    /\ pc = "end"
    /\ fail = "none"
    /\ carets' = mi.newcs
    /\ IF ~caches_ok(blocks, mi.newcs)
       THEN /\ fail' = IF mi.newcs = <<>> THEN "ub" ELSE "assert"
            /\ mi' = [mi EXCEPT !.newcs = carets]
            /\ UNCHANGED <<modifying, opened, pc, key, txns, notified>>
       ELSE /\ notified' = IF mi.modified THEN notified + 1 ELSE notified
            /\ modifying' = FALSE
            /\ mi' = [open |-> FALSE]
            /\ opened' = opened - 1
            /\ pc' = "idle"
            /\ key' = "none"
            /\ txns' = txns + 1
            /\ fail' = fail
    /\ UNCHANGED <<selecting, current_selection, predrag, predrag_pos, extVars, input, output, blocks, le, insert, hist>>

Next == MouseSelect \/ ToggleInsert \/ KeyDown \/ Command \/ NextCaret \/ End

Spec == Init /\ [][Next]_vars

(***************************************************************************)
(* The editor on the document of lines "foo", "bar", "baz": SpecSpan.  The *)
(* mouse selects among a few positions and one deleting key is pressed.    *)
(***************************************************************************)
SpanTxns == 1

SpanText == <<"f", "o", "o", LF, "b", "a", "r", LF, "b", "a", "z">>

SpanPositions ==
    {caret_position(0, 1), caret_position(1, 0), caret_position(1, 3), caret_position(2, 1)}

SpanKeys == {"backspace", "del"}

InitSpan == InitEditor({SpanText})

SpanSelect == MouseGesture(SpanPositions, MaxEditCarets)

SpanKeyDown == KeyPress(SpanKeys, SpanTxns)

NextSpan == SpanSelect \/ ToggleInsert \/ SpanKeyDown \/ Command \/ NextCaret \/ End

SpecSpan == InitSpan /\ [][NextSpan]_vars

(***************************************************************************)
(* The editor with the mouse events as separate steps, so that a key can   *)
(* be pressed while the button is held: SpecMouse.                         *)
(***************************************************************************)
MouseCarets == 2
MouseTxns == 1

\* _on_mouse_down with the left button at hit position p, the control key
\* as ctrl.  The button is up before: neither a selection nor a predrag is
\* in progress.  The mouse events come before the first transaction and
\* grow the caret set to n entries at most.
MouseDown(P, n) ==
    /\ pc = "idle"
    /\ fail = "none"
    /\ txns = 0
    /\ ~selecting
    /\ ~predrag
    /\ \E p \in P, ctrl \in BOOLEAN :
          IF ~is_in_selection(carets, p)
          THEN /\ ctrl => Len(carets) < n
               /\ carets' = IF ctrl THEN carets ELSE <<>>
               /\ selecting' = TRUE
               /\ current_selection' = caret_entry(p, p)
               /\ UNCHANGED <<predrag, predrag_pos>>
          ELSE /\ predrag_pos' = p
               /\ predrag' = TRUE
               /\ UNCHANGED <<carets, selecting, current_selection>>
    /\ hist' = [op |-> "down"]
    /\ UNCHANGED <<extVars, input, output, notified, blocks, le, insert, modifying, mi, opened, pc, key,
                   txns, fail>>

\* _on_mouse_move while the button is held, the pointer over hit position
\* q: the anchor of the selection in progress follows it; a predrag ends
\* when the pointer is farther than dragdrop_distance from _predrag_pos
MouseMove(P) ==
    /\ pc = "idle"
    /\ fail = "none"
    /\ txns = 0
    /\ selecting \/ predrag
    /\ \E q \in P, far \in BOOLEAN :
          /\ current_selection' =
                 IF selecting THEN [current_selection EXCEPT !.first = q]
                 ELSE current_selection
          /\ predrag' = (predrag /\ ~far)
    /\ hist' = [op |-> "move"]
    /\ UNCHANGED <<extVars, input, output, notified, blocks, le, insert, carets, modifying, mi, opened,
                   pc, key, txns, fail, selecting, predrag_pos>>

\* _on_mouse_lbutton_up, reached from _on_mouse_up and _on_capture_lost
MouseUp ==
    /\ pc = "idle"
    /\ fail = "none"
    /\ txns = 0
    /\ selecting \/ predrag
    /\ IF selecting
       THEN \E a \in {add_caret(carets, current_selection)} :
               IF a.asserted
               THEN /\ fail' = "assert"
                    /\ UNCHANGED <<carets, selecting, predrag, hist>>
               ELSE /\ carets' = a.mp
                    /\ selecting' = FALSE
                    /\ hist' = [op |-> "select"]
                    /\ UNCHANGED <<predrag, fail>>
       ELSE /\ predrag' = FALSE
            /\ carets' = <<caret_entry(predrag_pos, predrag_pos)>>
            /\ hist' = [op |-> "predrag"]
            /\ UNCHANGED <<selecting, fail>>
    /\ UNCHANGED <<extVars, input, output, notified, blocks, le, insert, modifying, mi, opened, pc, key,
                   txns, current_selection, predrag_pos>>

MouseLeftDown == MouseDown(ValidPositions(blocks), MouseCarets)

MouseMoved == MouseMove(ValidPositions(blocks))

MouseKeyDown == KeyPress(Keys, MouseTxns)

NextMouse ==
    MouseLeftDown \/ MouseMoved \/ MouseUp \/ MouseKeyDown \/ Command \/ NextCaret \/ End

SpecMouse == Init /\ [][NextMouse]_vars

(***************************************************************************)
(* The task pool of utilities/tasks.h, the thread of every task and the    *)
(* pool thread interleaved: SpecTasks.                                     *)
(***************************************************************************)
\* the number of calls of try_cancel
MaxCancels == 3

\* an exchange that does not compare
exchange(cur, exp, des) == [ok |-> TRUE, st |-> des, exp |-> cur]

\* std::atomic::compare_exchange_strong on an atomic that holds cur: ok is
\* the returned bool, st the value afterwards, exp the expected value
\* afterwards
compare_exchange_strong(cur, exp, des) ==
    IF cur = exp
    THEN [ok |-> TRUE, st |-> des, exp |-> exp]
    ELSE [ok |-> FALSE, st |-> cur, exp |-> cur]

\* a test that takes a requested cancellation for a final state
is_finished_or_requested(s) == s \in {"completed", "cancelled", "cancel_requested"}

\* the test of try_finish and of async_task::is_finished
is_finished(s) == s = "cancelled" \/ s = "completed"

InitTasks ==
    /\ input = <<>>
    /\ output = <<>>
    /\ blocks = <<>>
    /\ pc = "pool"
    /\ fail = "none"
    /\ NoEditor

\* what is left alone by the pool and the tasks
noPoolVars == <<input, output, blocks, pc, le, insert, carets, modifying, mi, opened, key,
                txns, notified, hist, selecting, current_selection, predrag, predrag_pos,
                active, dispatched>>

\* what pool_log keeps of a call of op on t that returned ret: from and to
\* are the status before and after the call's last access
returned(op, t, ret, from, to) ==
    [last |-> [op |-> op, t |-> t, ret |-> ret, from |-> from, to |-> to],
     won |-> IF op = "try_cancel" /\ ret THEN pool_log.won \cup {t} ELSE pool_log.won,
     calls |-> pool_log.calls]

\* run_task on the pool thread: the task is appended to _lst and its
\* thread is started
RunTask(t) ==
    /\ fail = "none"
    /\ pool_pc.op = "idle"
    /\ task_pc[t] = "none"
    /\ pool_lst' = pool_lst \cup {t}
    /\ task_pc' = [task_pc EXCEPT ![t] = "run"]
    /\ pool_log' = returned("run_task", t, TRUE, task_st[t], task_st[t])
    /\ UNCHANGED <<task_st, pool_pc, fail, noPoolVars>>

\* _run, the first compare_exchange_strong and the assertion
RunStart(t) ==
    /\ fail = "none"
    /\ task_pc[t] = "run"
    /\ \E r \in {compare_exchange_strong(task_st[t], "not_initiated", "running")} :
          /\ task_st' = [task_st EXCEPT ![t] = r.st]
          /\ IF r.ok
             THEN /\ task_pc' = [task_pc EXCEPT ![t] = "operation"]
                  /\ fail' = fail
             ELSE IF r.exp = "cancel_requested"
             THEN /\ task_pc' = [task_pc EXCEPT ![t] = "cancel_start"]
                  /\ fail' = fail
             ELSE /\ fail' = "assert"
                  /\ UNCHANGED task_pc
    /\ UNCHANGED <<pool_lst, pool_pc, pool_log, noPoolVars>>

\* operation(*this) returns
OperationReturns(t) ==
    /\ fail = "none"
    /\ task_pc[t] = "operation"
    /\ task_pc' = [task_pc EXCEPT ![t] = "returned"]
    /\ UNCHANGED <<task_st, pool_lst, pool_pc, pool_log, fail, noPoolVars>>

\* _run, the second compare_exchange_strong
RunFinish(t) ==
    /\ fail = "none"
    /\ task_pc[t] = "returned"
    /\ \E r \in {compare_exchange_strong(task_st[t], "running", "completed")} :
          /\ task_st' = [task_st EXCEPT ![t] = r.st]
          /\ task_pc' = [task_pc EXCEPT ![t] = IF r.ok THEN "done" ELSE "cancel_finish"]
    /\ UNCHANGED <<pool_lst, pool_pc, pool_log, fail, noPoolVars>>

\* _run, either _st = task_status::cancelled
RunCancelled(t) ==
    /\ fail = "none"
    /\ task_pc[t] \in {"cancel_start", "cancel_finish"}
    /\ task_st' = [task_st EXCEPT ![t] = "cancelled"]
    /\ task_pc' = [task_pc EXCEPT ![t] = "done"]
    /\ UNCHANGED <<pool_lst, pool_pc, pool_log, fail, noPoolVars>>

\* try_cancel on a token of _lst, up to its first compare_exchange_strong
TryCancel(t) ==
    /\ fail = "none"
    /\ pool_pc.op = "idle"
    /\ t \in pool_lst
    /\ pool_log.calls < MaxCancels
    /\ \E r \in {compare_exchange_strong(task_st[t], "not_initiated", "cancel_requested")} :
          /\ task_st' = [task_st EXCEPT ![t] = r.st]
          /\ IF r.ok
             THEN /\ pool_log' = [returned("try_cancel", t, TRUE, task_st[t], r.st)
                                     EXCEPT !.calls = @ + 1]
                  /\ UNCHANGED pool_pc
             ELSE /\ pool_log' = [pool_log EXCEPT !.calls = @ + 1]
                  /\ pool_pc' = [op |-> "try_cancel", t |-> t]
    /\ UNCHANGED <<task_pc, pool_lst, fail, noPoolVars>>

\* try_cancel, the second compare_exchange_strong and the return
TryCancelSecond ==
    /\ fail = "none"
    /\ pool_pc.op = "try_cancel"
    /\ \E r \in {compare_exchange_strong(task_st[pool_pc.t], "running", "cancel_requested")} :
          /\ task_st' = [task_st EXCEPT ![pool_pc.t] = r.st]
          /\ pool_log' = returned("try_cancel", pool_pc.t, r.ok, task_st[pool_pc.t], r.st)
    /\ pool_pc' = [op |-> "idle"]
    /\ UNCHANGED <<task_pc, pool_lst, fail, noPoolVars>>

\* try_finish on a token of _lst
TryFinish(t) ==
    /\ fail = "none"
    /\ pool_pc.op = "idle"
    /\ t \in pool_lst
    /\ pool_lst' = IF is_finished(task_st[t]) THEN pool_lst \ {t} ELSE pool_lst
    /\ pool_log' = returned("try_finish", t, is_finished(task_st[t]), task_st[t], task_st[t])
    /\ UNCHANGED <<task_st, task_pc, pool_pc, fail, noPoolVars>>

\* wait_finish on a token of _lst: the pool thread spins until the task
\* is finished
WaitFinish(t) ==
    /\ fail = "none"
    /\ pool_pc.op = "idle"
    /\ t \in pool_lst
    /\ pool_pc' = [op |-> "wait_finish", t |-> t]
    /\ UNCHANGED <<task_st, task_pc, pool_lst, pool_log, fail, noPoolVars>>

\* wait_finish leaves its loop, erases the task and returns
WaitFinishReturn ==
    /\ fail = "none"
    /\ pool_pc.op = "wait_finish"
    /\ is_finished(task_st[pool_pc.t])
    /\ pool_lst' = pool_lst \ {pool_pc.t}
    /\ pool_log' = returned("wait_finish", pool_pc.t, TRUE,
                            task_st[pool_pc.t], task_st[pool_pc.t])
    /\ pool_pc' = [op |-> "idle"]
    /\ UNCHANGED <<task_st, task_pc, fail, noPoolVars>>

\* the steps of _run that the thread of task t takes by itself
TaskThread(t) == RunStart(t) \/ RunFinish(t) \/ RunCancelled(t)

NextTasks ==
    \/ \E t \in Tasks : RunTask(t)
    \/ \E t \in Tasks : RunStart(t)
    \/ \E t \in Tasks : OperationReturns(t)
    \/ \E t \in Tasks : RunFinish(t)
    \/ \E t \in Tasks : RunCancelled(t)
    \/ \E t \in Tasks : TryCancel(t)
    \/ TryCancelSecond
    \/ \E t \in Tasks : TryFinish(t)
    \/ \E t \in Tasks : WaitFinish(t)
    \/ WaitFinishReturn

SpecTasks == InitTasks /\ [][NextTasks]_vars

\* the thread of every task that was started is scheduled again and again
SpecTasksFair == SpecTasks /\ \A t \in Tasks : WF_vars(TaskThread(t))

(***************************************************************************)
(* The interaction manager of editors/interaction_modes.h: SpecModes.      *)
(***************************************************************************)
\* the number of activators in _activators
NumActivators == 3

\* _activators, the activators by number; the mode that activator i
\* creates is called i as well
Activators == [i \in 1..NumActivators |-> i]

\* the events whose _dispatch_event has an ActivatorPtr, and those whose
\* ActivatorPtr is nullptr
ActivatorEvents == {"mouse_down", "mouse_up", "mouse_move", "capture_lost"}
ModeEvents == {"update", "edit_operation", "viewport_changed"}

\* what the activators would return for an event: TRUE for a mode.  An
\* activator has no callback for an event of ModeEvents.
Answers(e) ==
    IF e \in ActivatorEvents
    THEN [1..NumActivators -> BOOLEAN]
    ELSE {[i \in 1..NumActivators |-> FALSE]}

RECURSIVE offer(_, _, _)
RECURSIVE offer_all(_, _, _)
\* a faulty loop without the break: every activator is called and the
\* last mode returned stays
offer_all(acts, answers, i) ==
    IF i > Len(acts)
    THEN [active |-> nullptr, called |-> <<>>]
    ELSE LET r == offer_all(acts, answers, i + 1)
         IN  [active |-> IF r.active # nullptr THEN r.active
                         ELSE IF answers[acts[i]] THEN acts[i] ELSE nullptr,
              called |-> <<acts[i]>> \o r.called]

\* the for loop of _dispatch_event from the i-th activator on: active is
\* _active afterwards, called the activators called in order
offer(acts, answers, i) ==
    IF i > Len(acts)
    THEN [active |-> nullptr, called |-> <<>>]
    ELSE IF answers[acts[i]]
    THEN [active |-> acts[i], called |-> <<acts[i]>>]
    ELSE [active |-> offer(acts, answers, i + 1).active,
          called |-> <<acts[i]>> \o offer(acts, answers, i + 1).called]

\* _dispatch_event for event e with _active = act: stays is what the
\* handler of the active mode returns, forwarded the modes whose handler
\* was called
dispatch_event(act, e, answers, stays) ==
    IF act # nullptr
    THEN [active |-> IF stays THEN act ELSE nullptr, called |-> <<>>,
          forwarded |-> <<act>>]
    ELSE IF e \in ActivatorEvents
    THEN [active |-> offer(Activators, answers, 1).active,
          called |-> offer(Activators, answers, 1).called, forwarded |-> <<>>]
    ELSE [active |-> nullptr, called |-> <<>>, forwarded |-> <<>>]

InitModes ==
    /\ input = <<>>
    /\ output = <<>>
    /\ blocks = <<>>
    /\ pc = "manager"
    /\ fail = "none"
    /\ NoEditor

\* an entry point of the manager that dispatches event e
Dispatch(e) ==
    /\ fail = "none"
    /\ \E answers \in Answers(e), stays \in BOOLEAN :
          \E r \in {dispatch_event(active, e, answers, stays)} :
              /\ active' = r.active
              /\ dispatched' = [event |-> e, before |-> active, answers |-> answers,
                                stays |-> stays, called |-> r.called,
                                forwarded |-> r.forwarded]
    /\ UNCHANGED <<input, output, blocks, pc, fail, le, insert, carets, modifying, mi, opened,
                   key, txns, notified, hist, selecting, current_selection, predrag,
                   predrag_pos, task_st, task_pc, pool_lst, pool_pc, pool_log>>

on_mouse_down == Dispatch("mouse_down")
on_mouse_up == Dispatch("mouse_up")
on_mouse_move == Dispatch("mouse_move")
on_capture_lost == Dispatch("capture_lost")
on_update == Dispatch("update")
on_edit_operation == Dispatch("edit_operation")
on_viewport_changed == Dispatch("viewport_changed")

NextModes ==
    \/ on_mouse_down
    \/ on_mouse_up
    \/ on_mouse_move
    \/ on_capture_lost
    \/ on_update
    \/ on_edit_operation
    \/ on_viewport_changed

SpecModes == InitModes /\ [][NextModes]_vars

(***************************************************************************)
(* The editor with up to three carets and one transaction: SpecThree.      *)
(***************************************************************************)
ThreeCarets == 3
ThreeTxns == 1

ThreeSelect == MouseGesture(ValidPositions(blocks), ThreeCarets)

ThreeKeyDown == KeyPress(Keys, ThreeTxns)

NextThree == ThreeSelect \/ ToggleInsert \/ ThreeKeyDown \/ Command \/ NextCaret \/ End

SpecThree == Init /\ [][NextThree]_vars

(***************************************************************************)
(* The editor on the document of lines "", "abc", "d": SpecJoin.  The      *)
(* mouse selects among a few positions, up to three carets, and one        *)
(* deleting key is pressed.                                                *)
(***************************************************************************)
JoinTxns == 1

JoinText == <<LF, "a", "b", "c", LF, "d">>

JoinPositions ==
    {caret_position(1, 0), caret_position(1, 2), caret_position(1, 3),
     caret_position(2, 0), caret_position(2, 1)}

JoinKeys == {"backspace", "del"}

InitJoin == InitEditor({JoinText})

JoinSelect == MouseGesture(JoinPositions, ThreeCarets)

JoinKeyDown == KeyPress(JoinKeys, JoinTxns)

NextJoin == JoinSelect \/ ToggleInsert \/ JoinKeyDown \/ Command \/ NextCaret \/ End

SpecJoin == InitJoin /\ [][NextJoin]_vars

(***************************************************************************)
(* Structural edits of the document: SpecDoc.  A caller inserts and erases *)
(* lines through handles of the loaded document.  hist keeps the last      *)
(* operation: the handle it was called with (it), the document before      *)
(* (pre_bs), the handle it returned (ret) and the number of operations so   *)
(* far (n).                                                                *)
(***************************************************************************)
MaxDocOps == 3

\* the number of lines before the line at a handle
RECURSIVE line_index(_, _)
line_index(bs, it) ==
    IF it[1] = 1 THEN it[2] - 1 ELSE Len(bs[1]) + line_index(Tail(bs), <<it[1] - 1, it[2]>>)

\* editor_context::insert: the document and the handle of the new line
insert_before(bs, it, ln) ==
    [bs |-> [bs EXCEPT ![it[1]] = seq_insert(@, it[2], ln)], it |-> it]

\* the handle h of a line other than the one at e, once _do_erase(e) has
\* run: the list iterators stay valid, the line's place in its block, or
\* its block's place in the document, is one lower where the erased line,
\* or its block, came before
moved(bs, e, h) ==
    IF h[1] = e[1]
    THEN IF h[2] > e[2] THEN <<h[1], h[2] - 1>> ELSE h
    ELSE IF h[1] > e[1] /\ Len(bs[e[1]]) = 1 THEN <<h[1] - 1, h[2]>> ELSE h

\* a faulty erase that always steps back
erase_ret_back(bs, it) == iter_dec(bs, it)

\* the handle editor_context::erase returns, as it-- or it++ leave it
\* before _do_erase: NoIter where the step is undefined
erase_ret(bs, it) ==
    IF it = before_end(bs) THEN iter_dec(bs, it) ELSE iter_inc(bs, it)

\* the lines a caller inserts
NewLines == {line(<<"Z">>, "n")}

\* what hist keeps of an operation
doc_hist(op, it, ret) ==
    [op |-> op, it |-> it, ret |-> ret, pre_bs |-> blocks,
     n |-> IF hist.op = "none" THEN 1 ELSE hist.n + 1]

\* a caller may act: the document is loaded and fewer than MaxDocOps
\* operations were made
DocIdle ==
    /\ pc = "idle"
    /\ fail = "none"
    /\ hist.op # "none" => hist.n < MaxDocOps

\* a call of editor_context::insert
DocInsert ==
    /\ DocIdle
    /\ \E v \in 0..(num_lines(blocks) - 1), ln \in NewLines :
          \E r \in {insert_before(blocks, at(blocks, v), ln)} :
              /\ blocks' = r.bs
              /\ hist' = doc_hist("insert", at(blocks, v), r.it)
    /\ UNCHANGED <<selecting, current_selection, predrag, predrag_pos, extVars, input, output, notified, le, insert, carets, modifying, mi, opened, pc, key,
                   txns, fail>>

\* a call of editor_context::insert_after
DocInsertAfter ==
    /\ DocIdle
    /\ \E v \in 0..(num_lines(blocks) - 1), ln \in NewLines :
          \E r \in {insert_after(blocks, at(blocks, v), ln)} :
              /\ blocks' = r.bs
              /\ hist' = doc_hist("insert_after", at(blocks, v), r.it)
    /\ UNCHANGED <<selecting, current_selection, predrag, predrag_pos, extVars, input, output, notified, le, insert, carets, modifying, mi, opened, pc, key,
                   txns, fail>>

\* a call of editor_context::erase; on the only line of the document it--
\* steps before _blocks.begin(), which is undefined
DocErase ==
    /\ DocIdle
    /\ \E v \in 0..(num_lines(blocks) - 1) :
          \E it \in {at(blocks, v)} :
              IF erase_ret(blocks, it) = NoIter
              THEN /\ fail' = "ub"
                   /\ hist' = doc_hist("erase", it, NoIter)
                   /\ UNCHANGED blocks
              ELSE /\ blocks' = erase(blocks, it)
                   /\ hist' = doc_hist("erase", it, moved(blocks, it, erase_ret(blocks, it)))
                   /\ fail' = fail
    /\ UNCHANGED <<selecting, current_selection, predrag, predrag_pos, extVars, input, output, notified, le, insert, carets, modifying, mi, opened, pc, key,
                   txns>>

\* a call of editor_context::erase_after; on the last line ++it reads
\* _blocks.end(), which is undefined
DocEraseAfter ==
    /\ DocIdle
    /\ \E v \in 0..(num_lines(blocks) - 1) :
          \E it \in {at(blocks, v)} :
              IF erase_after(blocks, it) = NoDoc
              THEN /\ fail' = "ub"
                   /\ hist' = doc_hist("erase_after", it, NoIter)
                   /\ UNCHANGED blocks
              ELSE /\ blocks' = erase_after(blocks, it)
                   /\ hist' = doc_hist("erase_after", it, it)
                   /\ fail' = fail
    /\ UNCHANGED <<selecting, current_selection, predrag, predrag_pos, extVars, input, output, notified, le, insert, carets, modifying, mi, opened, pc, key,
                   txns>>

NextDoc == DocInsert \/ DocInsertAfter \/ DocErase \/ DocEraseAfter

SpecDoc == Init /\ [][NextDoc]_vars

(***************************************************************************)
(* Caret movement: SpecMove.  The mouse builds the caret set and the       *)
(* arrow keys, with or without shift, move every caret.  A horizontal      *)
(* position (a baseline, the argument of _hit_test_for_caret_x, the result *)
(* of _get_caret_pos_x) is counted in widths of a character of a font in   *)
(* which all characters are as wide and no pair is kerned.  The baseline   *)
(* an entry stores is not kept in the entry: the mouse stores the position *)
(* of the caret it sets, so a key of the first transaction reads that, and *)
(* a key of a later transaction, which may follow one that kept an older   *)
(* baseline, reads any of Baselines.                                       *)
(***************************************************************************)
MoveTxns == 2

\* the left edges of the columns, and one position right of every text
Baselines == 0..(MaxEditTextLen + 1)

MoveKeys == {"left", "right", "up", "down",
             "shift_left", "shift_right", "shift_up", "shift_down"}

\* codebox_editor::_hit_test_for_caret_x: the first column whose middle is
\* right of pos, the length of the line when there is none
hit_test_for_caret_x(ln, pos) ==
    IF pos < Len(ln.content) THEN pos ELSE Len(ln.content)

\* codebox_editor::_get_caret_pos_x(caret_position), where at() finds the
\* line
get_caret_pos_x(bs, pos) ==
    IF at(bs, pos.line) = NoIter
    THEN 0
    ELSE IF ULess(line_length(bs, at(bs, pos.line)), pos.column)
    THEN line_length(bs, at(bs, pos.line))
    ELSE pos.column

\* what a _get_*_position yields: the position p, or how the program stops
Pos(p) == [p |-> p, fail |-> "none"]
NoPos(f) == [p |-> caret_position(0, 0), fail |-> f]

\* a faulty _get_left_position that does not test for line 0
get_left_position_no_first(bs, cp) ==
    IF at(bs, cp.line) = NoIter
    THEN NoPos("assert")
    ELSE IF cp.column = 0
    THEN IF iter_dec(bs, at(bs, cp.line)) = NoIter
         THEN NoPos("ub")
         ELSE IF deref(bs, iter_dec(bs, at(bs, cp.line))).ending_type = "none"
         THEN NoPos("assert")
         ELSE Pos(caret_position(cp.line - 1,
                                 line_length(bs, iter_dec(bs, at(bs, cp.line)))))
    ELSE Pos(caret_position(cp.line, cp.column - 1))

\* codebox_editor::_get_left_position
get_left_position(bs, cp) ==
    IF at(bs, cp.line) = NoIter
    THEN NoPos("assert")
    ELSE IF cp.column = 0
    THEN IF cp.line # 0
         THEN IF deref(bs, iter_dec(bs, at(bs, cp.line))).ending_type = "none"
              THEN NoPos("assert")
              ELSE Pos(caret_position(cp.line - 1,
                                      line_length(bs, iter_dec(bs, at(bs, cp.line)))))
         ELSE Pos(cp)
    ELSE Pos(caret_position(cp.line, cp.column - 1))

\* codebox_editor::_get_right_position
get_right_position(bs, cp) ==
    IF at(bs, cp.line) = NoIter
    THEN NoPos("assert")
    ELSE IF cp.column = line_length(bs, at(bs, cp.line))
    THEN IF ULess(cp.line + 1, num_lines(bs))
         THEN Pos(caret_position(cp.line + 1, 0))
         ELSE Pos(cp)
    ELSE Pos(caret_position(cp.line, cp.column + 1))

\* codebox_editor::_get_up_position
get_up_position(bs, cp, bl) ==
    IF cp.line = 0
    THEN Pos(cp)
    ELSE IF at(bs, cp.line - 1) = NoIter
    THEN NoPos("assert")
    ELSE Pos(caret_position(cp.line - 1,
                            hit_test_for_caret_x(deref(bs, at(bs, cp.line - 1)), bl)))

\* codebox_editor::_get_down_position
get_down_position(bs, cp, bl) ==
    IF cp.line + 1 = num_lines(bs)
    THEN Pos(cp)
    ELSE IF at(bs, cp.line + 1) = NoIter
    THEN NoPos("assert")
    ELSE Pos(caret_position(cp.line + 1,
                            hit_test_for_caret_x(deref(bs, at(bs, cp.line + 1)), bl)))

\* _modify_iterator::move_to and move_to_with_selection with what a
\* _get_*_position yielded; mp is _cb->_cset.carets, which _cur points into
move_to(bs, m, r) ==
    IF r.fail # "none"
    THEN Stop(bs, m, r.fail)
    ELSE Done(bs, [m EXCEPT !.rpos = caret_entry(r.p, r.p)])

\* a faulty move_to_with_selection that takes the selection_end from the
\* first entry of the caret set
move_to_with_selection_first(bs, m, mp, r) ==
    IF r.fail # "none"
    THEN Stop(bs, m, r.fail)
    ELSE Done(bs, [m EXCEPT !.rpos = caret_entry(r.p, mp[1].selection_end)])

move_to_with_selection(bs, m, mp, r) ==
    IF r.fail # "none"
    THEN Stop(bs, m, r.fail)
    ELSE Done(bs, [m EXCEPT !.rpos = caret_entry(r.p, mp[m.cur].selection_end)])

\* a faulty _on_key_down_lr that steps from the anchor also where the entry
\* has a selection
on_key_down_lr_step(bs, m, mp, left, shift) ==
    IF shift
    THEN move_to_with_selection(bs, m, mp,
             IF left THEN get_left_position(bs, m.rpos.first)
                     ELSE get_right_position(bs, m.rpos.first))
    ELSE move_to(bs, m,
             IF left THEN get_left_position(bs, m.rpos.first)
                     ELSE get_right_position(bs, m.rpos.first))

\* the body of the loops of codebox_editor::_on_key_down_lr: left is TRUE
\* for the left key (gp is _get_left_position, gt is std::min)
on_key_down_lr(bs, m, mp, left, shift) ==
    IF shift
    THEN move_to_with_selection(bs, m, mp,
             IF left THEN get_left_position(bs, m.rpos.first)
                     ELSE get_right_position(bs, m.rpos.first))
    ELSE IF m.rpos.first = m.rpos.selection_end
    THEN move_to(bs, m,
             IF left THEN get_left_position(bs, m.rpos.first)
                     ELSE get_right_position(bs, m.rpos.first))
    ELSE move_to(bs, m,
             IF at(bs, (IF left THEN pos_min(m.rpos.first, m.rpos.selection_end)
                                ELSE pos_max(m.rpos.first, m.rpos.selection_end)).line) = NoIter
             THEN NoPos("assert")
             ELSE Pos(IF left THEN pos_min(m.rpos.first, m.rpos.selection_end)
                              ELSE pos_max(m.rpos.first, m.rpos.selection_end)))

\* the position and the baseline the loop without shift of _on_key_down_ud
\* moves from: newop and bl
ud_from(bs, m, up, bl) ==
    IF (IF up THEN pos_lt(m.rpos.selection_end, m.rpos.first)
              ELSE pos_lt(m.rpos.first, m.rpos.selection_end))
    THEN [newop |-> m.rpos.selection_end,
          bl |-> get_caret_pos_x(bs, m.rpos.selection_end),
          ok |-> at(bs, m.rpos.selection_end.line) # NoIter]
    ELSE [newop |-> m.rpos.first, bl |-> bl, ok |-> TRUE]

ud_move(bs, m, up, f) ==
    IF ~f.ok
    THEN Stop(bs, m, "assert")
    ELSE move_to(bs, m, IF up THEN get_up_position(bs, f.newop, f.bl)
                              ELSE get_down_position(bs, f.newop, f.bl))

\* the body of the loops of codebox_editor::_on_key_down_ud: up is TRUE for
\* the up key (Comp is std::greater, gp is _get_up_position), bl is the
\* baseline of the current entry
on_key_down_ud(bs, m, mp, up, shift, bl) ==
    IF shift
    THEN move_to_with_selection(bs, m, mp,
             IF up THEN get_up_position(bs, m.rpos.first, bl)
                   ELSE get_down_position(bs, m.rpos.first, bl))
    ELSE ud_move(bs, m, up, ud_from(bs, m, up, bl))

\* the command the handler of movement key k issues for the current caret
move_command(bs, m, mp, k, bl) ==
    CASE k = "left" -> on_key_down_lr(bs, m, mp, TRUE, FALSE)
      [] k = "shift_left" -> on_key_down_lr(bs, m, mp, TRUE, TRUE)
      [] k = "right" -> on_key_down_lr(bs, m, mp, FALSE, FALSE)
      [] k = "shift_right" -> on_key_down_lr(bs, m, mp, FALSE, TRUE)
      [] k = "up" -> on_key_down_ud(bs, m, mp, TRUE, FALSE, bl)
      [] k = "shift_up" -> on_key_down_ud(bs, m, mp, TRUE, TRUE, bl)
      [] k = "down" -> on_key_down_ud(bs, m, mp, FALSE, FALSE, bl)
      [] k = "shift_down" -> on_key_down_ud(bs, m, mp, FALSE, TRUE, bl)

\* curp.second.baseline as _on_key_down_ud reads it: the values the
\* current entry can hold
stored_baselines(bs, m) ==
    IF txns = 0 THEN {get_caret_pos_x(bs, m.rpos.first)} ELSE Baselines

\* _on_key_down with a movement key
MoveKeyDown == KeyPress(MoveKeys, MoveTxns)

\* the body of the loop of a movement key's handler: one move of the
\* current caret
Move ==
    /\ pc = "body"
    /\ fail = "none"
    /\ key \in MoveKeys
    /\ hist' = [hist EXCEPT !.ncmd = @ + 1, !.pre_bs = blocks, !.pre_m = mi]
    /\ \E bl \in stored_baselines(blocks, mi) :
          \E r \in {move_command(blocks, mi, carets, key, bl)} :
              /\ mi' = r.m
              /\ pc' = IF r.fail # "none" THEN pc ELSE "next"
              /\ fail' = r.fail
    /\ UNCHANGED <<selecting, current_selection, predrag, predrag_pos, extVars, input, output, notified, blocks, le, insert, carets, modifying, opened, key, txns>>

NextMove == MouseSelect \/ MoveKeyDown \/ Move \/ NextCaret \/ End

SpecMove == Init /\ [][NextMove]_vars

(***************************************************************************)
(* editor_context::at on a loaded document: SpecAt.  The build is either   *)
(* the debug build of the rest of the model or one with NDEBUG defined, in *)
(* which assert(false) is no statement and _at_impl goes on to its return. *)
(***************************************************************************)
MaxAtIndex == 5

\* the indices at() is called with
AtIndices == 0..MaxAtIndex

\* editor_context::_at_impl as built with NDEBUG defined (ndebug) or not:
\* the handle it returns, NoIter where the assertion stops the program
at_build(bs, v, ndebug) ==
    IF at(bs, v) = NoIter /\ ndebug THEN begin_iter ELSE at(bs, v)

\* a call of editor_context::at
At ==
    /\ pc = "idle"
    /\ fail = "none"
    /\ \E v \in AtIndices, ndebug \in BOOLEAN :
          /\ hist' = [op |-> "at", v |-> v, ndebug |-> ndebug,
                      it |-> at_build(blocks, v, ndebug)]
          /\ fail' = IF at_build(blocks, v, ndebug) = NoIter THEN "assert" ELSE fail
    /\ UNCHANGED <<selecting, current_selection, predrag, predrag_pos, extVars, input, output, notified, blocks, le, insert, carets, modifying, mi, opened,
                   pc, key, txns>>

NextAt == At

SpecAt == Init /\ [][NextAt]_vars

(***************************************************************************)
(* The editor with callers that the handlers of the program do not have:   *)
(* SpecReentrant.  While a transaction is open, some code constructs       *)
(* another _modify_iterator_rsrc, or the editor is rendered.               *)
(***************************************************************************)
\* a faulty start() without its assertion, called while a transaction is open
Reenter_unguarded ==
    /\ pc \in {"body", "next", "end"}
    /\ fail = "none"
    /\ hist' = [op |-> "reenter"]
    /\ modifying' = TRUE
    /\ opened' = opened + 1
    /\ fail' = fail
    /\ UNCHANGED <<selecting, current_selection, predrag, predrag_pos, extVars, input, output, notified, blocks, le, insert, carets, mi, pc, key, txns>>

\* _modify_iterator::start called while a transaction is open
Reenter ==
    /\ pc \in {"body", "next", "end"}
    /\ fail = "none"
    /\ hist' = [op |-> "reenter"]
    /\ IF modifying
       THEN /\ fail' = "assert"
            /\ UNCHANGED <<modifying, opened>>
       ELSE /\ modifying' = TRUE
            /\ opened' = opened + 1
            /\ fail' = fail
    /\ UNCHANGED <<selecting, current_selection, predrag, predrag_pos, extVars, input, output, notified, blocks, le, insert, carets, mi, pc, key, txns>>

\* codebox_editor::_render, up to its assertion; drawing changes no state
Render ==
    /\ fail = "none"
    /\ fail' = IF modifying THEN "assert" ELSE fail
    /\ UNCHANGED <<selecting, current_selection, predrag, predrag_pos, extVars, input, output, notified, blocks, le, insert, carets, modifying, mi, opened, pc, key,
                   txns, hist>>

NextReentrant == Next \/ Reenter \/ Render

SpecReentrant == Init /\ [][NextReentrant]_vars

(***************************************************************************)
(* Properties of the edit transactions.                                    *)
(***************************************************************************)
pure(e) == e.first = e.selection_end
pure_at(p) == caret_entry(p, p)

\* p is a position of the document bs: one of its lines, a column up to
\* the line's length
in_document(bs, p) ==
    /\ p.line \in 0..(num_lines(bs) - 1)
    /\ p.column \in 0..Len(all_lines(bs)[p.line + 1].content)

\* a transaction has run to its end()
TxnDone == pc = "idle" /\ fail = "none" /\ hist.op = "txn"
\* the last command of the transaction has just run / has just failed
CmdDone == pc = "next" /\ fail = "none" /\ hist.op = "txn" /\ hist.ncmd >= 1
CmdFailed == pc = "body" /\ fail # "none" /\ hist.op = "txn" /\ hist.ncmd >= 1

\* the text s with c inserted at each of the columns cols (ascending),
\* every column counted in s as it was
RECURSIVE SimulInsert(_, _, _)
SimulInsert(s, cols, c) ==
    IF cols = <<>>
    THEN s
    ELSE SimulInsert(SubSeq(s, 1, cols[Len(cols)]) \o <<c>>
                         \o SubSeq(s, cols[Len(cols)] + 1, Len(s)),
                     SubSeq(cols, 1, Len(cols) - 1), c)

\* a transaction types "Z" in insert mode at pure carets of one line of the
\* document
TypeCase ==
    /\ hist.op = "txn"
    /\ hist.key = "Z"
    /\ hist.ins
    /\ hist.carets # <<>>
    /\ \A i \in 1..Len(hist.carets) :
          /\ pure(hist.carets[i])
          /\ in_document(hist.blocks, hist.carets[i].first)
          /\ hist.carets[i].first.line = hist.carets[1].first.line

\* C4: typing one character in insert mode at k >= 1 pure carets of one
\* line through one transaction does not fail and yields the line with the
\* character inserted at every caret's original column at once, the other
\* lines as they were, and the i-th caret pure, right after its own
\* character.
SimultaneousInsert ==
    TypeCase =>
        /\ fail = "none"
        /\ pc = "idle" =>
              LET l == hist.carets[1].first.line + 1
                  cols == [i \in 1..Len(hist.carets) |-> hist.carets[i].first.column]
                  old == all_lines(hist.blocks)
              IN  /\ all_lines(blocks) =
                         [old EXCEPT ![l].content = SimulInsert(old[l].content, cols, "Z")]
                  /\ Len(carets) = Len(hist.carets)
                  /\ \A i \in 1..Len(carets) :
                        carets[i] = pure_at(caret_position(l - 1, cols[i] + i))

SimultaneousInsertWitness ==
    /\ TxnDone
    /\ TypeCase
    /\ Len(hist.carets) = 2
    /\ all_lines(blocks)[hist.carets[1].first.line + 1].content = <<"a", "Z", "b", "Z">>

\* the lines of the document of SpecSpan
SpanLines ==
    <<line(<<"f", "o", "o">>, "n"), line(<<"b", "a", "r">>, "n"), line(<<"b", "a", "z">>, "none")>>

\* a transaction deletes the selection between (0,1) and (2,1) of SpanLines
SpanCase ==
    /\ hist.op = "txn"
    /\ hist.key \in {"backspace", "del"}
    /\ all_lines(hist.blocks) = SpanLines
    /\ Len(hist.carets) = 1
    /\ {hist.carets[1].first, hist.carets[1].selection_end} =
           {caret_position(0, 1), caret_position(2, 1)}

\* C5 as stated: deleting the selection from (0,1) to (2,1) of "foo", "bar",
\* "baz" leaves one line, "fz".
SpanDeleteFz ==
    (TxnDone /\ SpanCase) =>
        /\ num_lines(blocks) = 1
        /\ all_lines(blocks)[1].content = <<"f", "z">>

\* C5: deleting the selection from (0,1) to (2,1) of "foo", "bar", "baz"
\* does not fail and leaves one line, "faz": the first character of line 0
\* joined with line 2 from its column 1 on.
SpanDelete ==
    SpanCase =>
        /\ fail = "none"
        /\ pc = "idle" =>
              /\ num_lines(blocks) = 1
              /\ all_lines(blocks)[1].content = <<"f", "a", "z">>

SpanDeleteWitness == TxnDone /\ SpanCase /\ num_lines(blocks) = 1

\* the last command is a newline typed at a pure caret of the document
NewlineCase ==
    /\ hist.op = "txn"
    /\ hist.key = LF
    /\ hist.ncmd >= 1
    /\ hist.pre_m.smin = hist.pre_m.smax
    /\ in_document(hist.pre_bs, hist.pre_m.smin)

\* C6: a newline inserted at a pure caret (L, c) does not fail; line L then
\* holds the first c characters with the configured line ending as tag,
\* line L+1 the rest with the tag line L had, the other lines are as they
\* were, one line more in all, and the caret is the pure caret (L+1, 0).
NewlineSplit ==
    NewlineCase =>
        /\ ~CmdFailed
        /\ CmdDone =>
              LET l == hist.pre_m.smin.line + 1
                  c == hist.pre_m.smin.column
                  old == all_lines(hist.pre_bs)
                  new == all_lines(blocks)
              IN  /\ Len(new) = Len(old) + 1
                  /\ new[l] = line(SubSeq(old[l].content, 1, c), le)
                  /\ new[l + 1] = line(SubSeq(old[l].content, c + 1, Len(old[l].content)),
                                       old[l].ending_type)
                  /\ \A i \in 1..Len(old) :
                        /\ i < l => new[i] = old[i]
                        /\ i > l => new[i + 1] = old[i]
                  /\ mi.rpos = pure_at(caret_position(l, 0))

NewlineSplitWitness ==
    /\ CmdDone
    /\ fail = "none"
    /\ NewlineCase
    /\ hist.pre_m.smin.column = 1
    /\ Len(all_lines(blocks)[hist.pre_m.smin.line + 2].content) >= 1
    /\ all_lines(blocks)[hist.pre_m.smin.line + 2].ending_type # le

\* the last command is a backspace at the pure caret (0,0)
BackspaceOriginCmd ==
    /\ hist.op = "txn"
    /\ hist.key = "backspace"
    /\ hist.ncmd >= 1
    /\ hist.pre_m.rpos = pure_at(caret_position(0, 0))

\* a backspace transaction on the pure caret (0,0) alone
BackspaceOriginTxn ==
    /\ hist.op = "txn"
    /\ hist.key = "backspace"
    /\ hist.carets = <<pure_at(caret_position(0, 0))>>

\* C7: backspace on a pure caret at (0,0) raises no failure and leaves
\* every line's content and tag, the line count and the caret's (anchor,
\* selection_end) as they were, as a command and as a whole transaction.
BackspaceAtOrigin ==
    /\ BackspaceOriginCmd =>
          /\ ~CmdFailed
          /\ CmdDone => (blocks = hist.pre_bs /\ mi.rpos = hist.pre_m.rpos)
    /\ BackspaceOriginTxn =>
          /\ fail = "none"
          /\ blocks = hist.blocks
          /\ pc = "idle" => carets = hist.carets

BackspaceAtOriginWitness == TxnDone /\ BackspaceOriginTxn /\ txns >= 1

\* C8: with a configured line ending other than None, after load and at
\* every step of every edit transaction, the step a transaction stops at
\* included, exactly one line of the document has the ending tag None, and
\* it is the last line of the last block.
OneNoneTag ==
    le # "none" =>
        /\ blocks # <<>>
        /\ blocks[Len(blocks)] # <<>>
        /\ blocks[Len(blocks)][Len(blocks[Len(blocks)])].ending_type = "none"
        /\ Cardinality({i \in 1..num_lines(blocks) :
                            all_lines(blocks)[i].ending_type = "none"}) = 1

\* C9: at most one transaction is open at any time, the modifying flag is
\* true exactly between start() and end(), and start() called while the
\* flag is true stops the program with a failed assertion and opens no
\* second transaction.
SingleTransaction ==
    /\ opened <= 1
    /\ modifying <=> opened = 1
    /\ modifying <=> pc \in {"start", "body", "next", "end"}
    /\ hist.op = "reenter" => fail = "assert"

SingleTransactionWitness ==
    /\ hist.op = "reenter"
    /\ fail = "assert"
    /\ modifying
    /\ opened = 1

\* the position after the last character of the last line
document_end(bs) ==
    caret_position(num_lines(bs) - 1, Len(all_lines(bs)[num_lines(bs)].content))

\* the last command is a forward delete at the pure caret at the end
ForwardDeleteEndCmd ==
    /\ hist.op = "txn"
    /\ hist.key = "del"
    /\ hist.ncmd >= 1
    /\ hist.pre_m.rpos = pure_at(document_end(hist.pre_bs))

\* a forward-delete transaction on the pure caret at the end alone
ForwardDeleteEndTxn ==
    /\ hist.op = "txn"
    /\ hist.key = "del"
    /\ hist.carets = <<pure_at(document_end(hist.blocks))>>

\* C10: forward delete on a pure caret at the end of the last line raises
\* no failure and leaves every line's content and tag, the line count and
\* the caret position as they were, as a command and as a whole
\* transaction.
ForwardDeleteAtEnd ==
    /\ ForwardDeleteEndCmd =>
          /\ ~CmdFailed
          /\ CmdDone => (blocks = hist.pre_bs /\ mi.rpos = hist.pre_m.rpos)
    /\ ForwardDeleteEndTxn =>
          /\ fail = "none"
          /\ blocks = hist.blocks
          /\ pc = "idle" => carets = hist.carets

ForwardDeleteAtEndWitness ==
    /\ TxnDone
    /\ ForwardDeleteEndTxn
    /\ num_lines(blocks) = 2
    /\ hist.carets[1].first.column = 1

\* the last command is a move by key k of a caret at a position of the
\* document, the position the key's _get_*_position is called with
MoveCase(k) ==
    /\ hist.op = "txn"
    /\ hist.ncmd >= 1
    /\ hist.key \in {k, "shift_" \o k}
    /\ hist.key = k => pure(hist.pre_m.rpos)
    /\ in_document(hist.pre_bs, hist.pre_m.rpos.first)

\* the length of line l of the document bs
length_of(bs, l) == Len(all_lines(bs)[l + 1].content)

\* C11: a move of a caret at a valid position p raises no failure and
\* yields a valid position q: left yields p at (0,0), the end of the line
\* before at column 0, the column before otherwise; right yields p at the
\* end of the last line, column 0 of the next line at the end of a line, the
\* next column otherwise; up yields p on line 0 and a position of the line
\* before otherwise; down yields p on the last line and a position of the
\* next line otherwise.
SaturatingMoves ==
    \A k \in {"left", "right", "up", "down"} :
        MoveCase(k) =>
            /\ ~CmdFailed
            /\ CmdDone =>
                  LET p == hist.pre_m.rpos.first
                      q == mi.rpos.first
                      last == num_lines(blocks) - 1
                  IN  /\ in_document(blocks, q)
                      /\ k = "left" =>
                            q = IF p = caret_position(0, 0)
                                THEN p
                                ELSE IF p.column = 0
                                THEN caret_position(p.line - 1, length_of(blocks, p.line - 1))
                                ELSE caret_position(p.line, p.column - 1)
                      /\ k = "right" =>
                            q = IF p = caret_position(last, length_of(blocks, last))
                                THEN p
                                ELSE IF p.column = length_of(blocks, p.line)
                                THEN caret_position(p.line + 1, 0)
                                ELSE caret_position(p.line, p.column + 1)
                      /\ k = "up" =>
                            IF p.line = 0 THEN q = p ELSE q.line = p.line - 1
                      /\ k = "down" =>
                            IF p.line = last THEN q = p ELSE q.line = p.line + 1

SaturatingMovesWitness ==
    /\ CmdDone
    /\ MoveCase("left")
    /\ hist.pre_m.rpos.first.line = 1
    /\ hist.pre_m.rpos.first.column = 0
    /\ mi.rpos.first = caret_position(0, 2)

\* C12: a transaction that ran to its end() invoked the modified event once
\* if one of its commands changed the document, and not at all otherwise.
ModifiedNotification ==
    TxnDone => notified - hist.notified = (IF hist.changed THEN 1 ELSE 0)

\* the closed range of an entry holds a position
Inside(p, e) == pos_le(range_min(e), p) /\ pos_le(p, range_max(e))

\* C13: for every caret set that merge-inserts build and every position p,
\* is_in_selection(p) is true exactly when p lies strictly inside the range
\* of some entry with anchor # selection_end.
InSelectionStrict ==
    (pc = "carets" /\ hist.op = "is_in_selection") =>
        (hist.result <=>
            \E i \in 1..Len(carets) : ~pure(carets[i]) /\ StrictlyInside(hist.cp, carets[i]))

\* the same with closed ranges: is_in_selection(p) is true exactly when p
\* lies in the closed range of some entry with anchor # selection_end
InSelectionClosed ==
    (pc = "carets" /\ hist.op = "is_in_selection") =>
        (hist.result <=>
            \E i \in 1..Len(carets) : ~pure(carets[i]) /\ Inside(hist.cp, carets[i]))

\* the ranges of two entries share more than one boundary point
ProperOverlap(e1, e2) ==
    /\ pos_lt(range_min(e1), range_max(e2))
    /\ pos_lt(range_min(e2), range_max(e1))

\* of two entries the one whose range begins first
LowerOrdered(e1, e2) == IF pos_lt(range_min(e2), range_min(e1)) THEN e2 ELSE e1

\* a merge-insert has combined the candidate, a selection, with the one
\* entry of the set, a selection that properly overlaps it and begins
\* elsewhere
CombineCase ==
    /\ pc = "carets"
    /\ hist.op = "add_caret"
    /\ Len(hist.carets) = 1
    /\ ~pure(hist.c)
    /\ ~pure(hist.carets[1])
    /\ ProperOverlap(hist.c, hist.carets[1])
    /\ range_min(hist.c) # range_min(hist.carets[1])

\* C14: when a merge-insert combines two properly overlapping selections,
\* the result spans both and has the direction of the input that begins
\* first: anchor = combined minimum if that input has anchor <
\* selection_end, anchor = combined maximum otherwise.
DirectionOfLower ==
    CombineCase =>
        LET c == hist.c
            e == hist.carets[1]
            gmin == pos_min(range_min(c), range_min(e))
            gmax == pos_max(range_max(c), range_max(e))
            lo == LowerOrdered(c, e)
        IN  carets = IF pos_lt(lo.first, lo.selection_end)
                     THEN <<caret_entry(gmin, gmax)>>
                     ELSE <<caret_entry(gmax, gmin)>>

\* a merge-insert has added the candidate, a selection, to a set of one
\* selection whose range touches the candidate's at one boundary point
TouchCase ==
    /\ pc = "carets"
    /\ hist.op = "add_caret"
    /\ Len(hist.carets) = 1
    /\ ~pure(hist.c)
    /\ ~pure(hist.carets[1])
    /\ \/ range_max(hist.c) = range_min(hist.carets[1])
       \/ range_max(hist.carets[1]) = range_min(hist.c)

\* C15: merge-inserting a selection that touches the existing selection at
\* one boundary point replaces the two by one entry, from the smaller
\* minimum to the larger maximum.
TouchingMerged ==
    TouchCase =>
        /\ Len(carets) = 1
        /\ range_min(carets[1]) = pos_min(range_min(hist.c), range_min(hist.carets[1]))
        /\ range_max(carets[1]) = pos_max(range_max(hist.c), range_max(hist.carets[1]))

\* C16: at(v) with v >= num_lines() stops the program at the assertion; it
\* returns no handle.
AtFailsFast ==
    (hist.op = "at" /\ ~ULess(hist.v, num_lines(blocks))) =>
        (fail = "assert" /\ hist.it = NoIter)

\* both positions of an entry are positions of the document bs
entry_in_document(bs, e) == in_document(bs, e.first) /\ in_document(bs, e.selection_end)

\* the transaction started from a caret set of valid positions in which the
\* closed ranges of no two entries intersect
ValidStart ==
    /\ hist.op = "txn"
    /\ \A i \in 1..Len(hist.carets) :
          /\ entry_in_document(hist.blocks, hist.carets[i])
          /\ \A j \in 1..Len(hist.carets) :
                i # j => ~Intersect(hist.carets[i], hist.carets[j])

\* C17: in a transaction started from a non-overlapping caret set of valid
\* positions, the caret a command is about to run on is at valid positions
\* of the document as it then is, and after end() every anchor and
\* selection_end of the caret set is a valid position.
PositionsStayValid ==
    ValidStart =>
        /\ (pc = "body" /\ fail = "none") => entry_in_document(blocks, mi.rpos)
        /\ TxnDone => \A i \in 1..Len(carets) : entry_in_document(blocks, carets[i])

\* the least and the greatest of a set of positions
LeastPos(S) == CHOOSE p \in S : \A q \in S : pos_le(p, q)
GreatestPos(S) == CHOOSE p \in S : \A q \in S : pos_le(q, p)

\* a merge-insert was made into a set in which the closed ranges of no two
\* entries intersect
DisjointBefore ==
    /\ pc = "carets"
    /\ hist.op = "add_caret"
    /\ \A i \in 1..Len(hist.carets), j \in 1..Len(hist.carets) :
          i # j => ~Intersect(hist.carets[i], hist.carets[j])

\* the entries R of the set before were removed and one entry inserted,
\* whose range is the smallest that covers the candidate and the entries R
MergedWith(R) ==
    /\ Len(carets) = Len(hist.carets) - Cardinality(R) + 1
    /\ {carets[i] : i \in 1..Len(carets) \ {hist.it}} =
           {hist.carets[i] : i \in 1..Len(hist.carets) \ R}
    /\ range_min(carets[hist.it]) =
           LeastPos({range_min(hist.c)} \cup {range_min(hist.carets[i]) : i \in R})
    /\ range_max(carets[hist.it]) =
           GreatestPos({range_max(hist.c)} \cup {range_max(hist.carets[i]) : i \in R})

\* C18: a merge-insert into a non-overlapping set removes the entries it
\* merged with and inserts exactly one entry, whose range is the smallest
\* that covers the candidate and the removed entries; no entry that remains
\* properly overlaps the inserted one.
MergeInsertCovers ==
    DisjointBefore =>
        /\ \E R \in SUBSET (1..Len(hist.carets)) : MergedWith(R)
        /\ \A i \in 1..Len(carets) :
              i # hist.it => ~ProperOverlap(carets[i], carets[hist.it])

MergeInsertCoversWitness ==
    /\ DisjointBefore
    /\ Len(hist.carets) = 2
    /\ Len(carets) = 1
    /\ ~pure(hist.carets[1])
    /\ ~pure(hist.carets[2])
    /\ MergedWith({1, 2})

\* a merge-insert has returned
Inserted == pc = "carets" /\ hist.op = "add_caret"

\* C19: a merge-insert keeps, unaltered, every entry whose closed range
\* shares no position with the candidate's, and sets merged exactly when it
\* removed an entry (the set did not grow).
MergeInsertFrame ==
    Inserted =>
        /\ \A i \in 1..Len(hist.carets) :
              ~Intersect(hist.carets[i], hist.c) =>
                  \E j \in 1..Len(carets) : j # hist.it /\ carets[j] = hist.carets[i]
        /\ hist.merged <=> Len(carets) <= Len(hist.carets)

MergeInsertFrameWitness ==
    /\ Inserted
    /\ hist.merged
    /\ Len(hist.carets) = 2
    /\ Len(carets) = 2
    /\ \E i \in 1..2 : ~pure(hist.carets[i]) /\ ~Intersect(hist.carets[i], hist.c)

\* C20: no merge-insert that the mouse or a transaction is about to make
\* fails the assertion of can_merge_selection: not the add_caret of
\* _end_selection for a gesture from p to q, p outside every selection,
\* and not the add_caret of next() for the caret a command has run on.
MergeAssertionHolds ==
    /\ (pc = "idle" /\ fail = "none" /\ txns = 0) =>
          \A p \in ValidPositions(blocks), q \in ValidPositions(blocks), ctrl \in BOOLEAN :
              ~is_in_selection(carets, p) =>
                  ~add_caret(IF ctrl THEN carets ELSE <<>>, caret_entry(q, p)).asserted
    /\ (pc = "next" /\ fail = "none") => ~add_caret(mi.newcs, mi.rpos).asserted

\* the last command is a backspace or a forward delete on a selection
\* between two positions of the document
SpanCmd ==
    /\ hist.op = "txn"
    /\ hist.key \in {"backspace", "del"}
    /\ hist.ncmd >= 1
    /\ hist.pre_m.smin # hist.pre_m.smax
    /\ in_document(hist.pre_bs, hist.pre_m.smin)
    /\ in_document(hist.pre_bs, hist.pre_m.smax)

\* C21: deleting a selection from (L1,c1) to (L2,c2) does not fail and
\* replaces lines L1..L2 by one line, the first c1 characters of line L1
\* followed by line L2 from column c2 on, with line L2's tag (for L1 = L2
\* the line loses the columns [c1,c2)); the other lines are as they were,
\* L2 - L1 lines fewer in all, and the caret is the pure caret (L1,c1).
DeleteSpan ==
    SpanCmd =>
        /\ ~CmdFailed
        /\ CmdDone =>
              LET l1 == hist.pre_m.smin.line + 1
                  l2 == hist.pre_m.smax.line + 1
                  c1 == hist.pre_m.smin.column
                  c2 == hist.pre_m.smax.column
                  old == all_lines(hist.pre_bs)
                  new == all_lines(blocks)
              IN  /\ Len(new) = Len(old) - (l2 - l1)
                  /\ new[l1] = line(SubSeq(old[l1].content, 1, c1)
                                        \o SubSeq(old[l2].content, c2 + 1, Len(old[l2].content)),
                                    old[l2].ending_type)
                  /\ \A i \in 1..Len(old) :
                        /\ i < l1 => new[i] = old[i]
                        /\ i > l2 => new[i - (l2 - l1)] = old[i]
                  /\ mi.rpos = pure_at(hist.pre_m.smin)

DeleteSpanWitness ==
    /\ CmdDone
    /\ SpanCmd
    /\ hist.pre_m.smax.line = hist.pre_m.smin.line + 2
    /\ hist.pre_m.smin.column = 1
    /\ num_lines(blocks) = 1

\* next() has just loaded the entry after one whose command deleted a
\* selection over several lines of the document
SpanFixCase ==
    /\ hist.op = "txn"
    /\ hist.key \in {"backspace", "del"}
    /\ pc = "body"
    /\ fail = "none"
    /\ hist.ncmd >= 1
    /\ mi.cur = hist.ncmd + 1
    /\ hist.pre_m.smin.line < hist.pre_m.smax.line
    /\ in_document(hist.pre_bs, hist.pre_m.smin)
    /\ in_document(hist.pre_bs, hist.pre_m.smax)

\* C22: after a command deleted a selection over several lines that starts
\* at (L, c1) as fixed up, a position of the next entry that lay on the
\* selection's last line at a column c at or after the selection's end
\* column c2 is fixed up to (L, c1 + c - c2).
FixupAfterSpan ==
    SpanFixCase =>
        LET omax == range_max(carets[mi.cur - 1])
            to(p) == caret_position(hist.pre_m.smin.line,
                                    hist.pre_m.smin.column + p.column - hist.pre_m.smax.column)
            on_last(p) == p.line = omax.line /\ p.column >= omax.column
        IN  /\ on_last(carets[mi.cur].first) =>
                  mi.rpos.first = to(carets[mi.cur].first)
            /\ on_last(carets[mi.cur].selection_end) =>
                  mi.rpos.selection_end = to(carets[mi.cur].selection_end)

\* next() has just loaded the entry after one whose command typed a newline
\* at a caret of the document, pure or with a selection within its line
NewlineFixCase ==
    /\ hist.op = "txn"
    /\ hist.key = LF
    /\ pc = "body"
    /\ fail = "none"
    /\ hist.ncmd >= 1
    /\ mi.cur = hist.ncmd + 1
    /\ carets[mi.cur - 1].first.line = carets[mi.cur - 1].selection_end.line
    /\ hist.pre_m.smin.line = hist.pre_m.smax.line
    /\ in_document(hist.pre_bs, hist.pre_m.smin)
    /\ in_document(hist.pre_bs, hist.pre_m.smax)

\* where next() has to put the position p of the entry it loads, o being
\* the position the newline's caret, or the end of its selection, had before
\* the transaction
AfterNewline(p, o) ==
    IF p.line = o.line
    THEN caret_position(hist.pre_m.smin.line + 1, p.column - o.column)
    ELSE caret_position(p.line + hist.pre_m.dy + 1, p.column)

Separate(mp) ==
    \A i \in 1..Len(mp), j \in 1..Len(mp) :
        i < j => pos_lt(range_max(mp[i]), range_min(mp[j]))

\* the last command is a backspace at a pure caret at column 0 of a line of
\* the document but the first, in a transaction on a caret set whose
\* entries neither overlap nor touch
BackspaceJoinCase ==
    /\ hist.op = "txn"
    /\ hist.key = "backspace"
    /\ hist.ncmd >= 1
    /\ Separate(hist.carets)
    /\ hist.pre_m.smin = hist.pre_m.smax
    /\ hist.pre_m.smin.column = 0
    /\ hist.pre_m.smin.line > 0
    /\ in_document(hist.pre_bs, hist.pre_m.smin)

\* C24: backspace at a pure caret at column 0 of line L > 0 does not fail,
\* the assertion on the column delta included; line L-1 then holds its old
\* content followed by line L's, with line L's tag, line L is gone, the
\* other lines are as they were, and the caret is the pure caret at
\* (L-1, old length of line L-1).
BackspaceJoin ==
    BackspaceJoinCase =>
        /\ ~CmdFailed
        /\ CmdDone =>
              LET l == hist.pre_m.smin.line + 1
                  old == all_lines(hist.pre_bs)
                  new == all_lines(blocks)
              IN  /\ Len(new) = Len(old) - 1
                  /\ new[l - 1] = line(old[l - 1].content \o old[l].content,
                                       old[l].ending_type)
                  /\ \A i \in 1..Len(old) :
                        /\ i < l - 1 => new[i] = old[i]
                        /\ i > l => new[i - 1] = old[i]
                  /\ mi.rpos = pure_at(caret_position(l - 2, Len(old[l - 1].content)))

\* the last command is a forward delete at a pure caret at the end of a line
\* of the document but the last
ForwardJoinCase ==
    /\ hist.op = "txn"
    /\ hist.key = "del"
    /\ hist.ncmd >= 1
    /\ hist.pre_m.smin = hist.pre_m.smax
    /\ in_document(hist.pre_bs, hist.pre_m.smin)
    /\ hist.pre_m.smin.column = length_of(hist.pre_bs, hist.pre_m.smin.line)
    /\ hist.pre_m.smin.line + 1 < num_lines(hist.pre_bs)

\* C25: forward delete at a pure caret at the end of line L, with a line
\* L+1, does not fail; line L then holds its content followed by line
\* L+1's, with line L+1's tag, line L+1 is gone, the other lines are as
\* they were, and the caret is where it was.
ForwardJoin ==
    ForwardJoinCase =>
        /\ ~CmdFailed
        /\ CmdDone =>
              LET l == hist.pre_m.smin.line + 1
                  old == all_lines(hist.pre_bs)
                  new == all_lines(blocks)
              IN  /\ Len(new) = Len(old) - 1
                  /\ new[l] = line(old[l].content \o old[l + 1].content,
                                   old[l + 1].ending_type)
                  /\ \A i \in 1..Len(old) :
                        /\ i < l => new[i] = old[i]
                        /\ i > l + 1 => new[i - 1] = old[i]
                  /\ mi.rpos = hist.pre_m.rpos

\* the line joined is the last line, alone in the second block
ForwardJoinWitness ==
    /\ CmdDone
    /\ ForwardJoinCase
    /\ hist.pre_m.smin.line = 1
    /\ Len(hist.pre_bs) = 2
    /\ Len(hist.pre_bs[2]) = 1
    /\ Len(blocks) = 1
    /\ all_lines(blocks)[2].ending_type = "none"

\* next() has just loaded the entry after one whose forward delete joined
\* the next line to the caret's
JoinFixCase ==
    /\ ForwardJoinCase
    /\ pc = "body"
    /\ fail = "none"
    /\ mi.cur = hist.ncmd + 1
    /\ Separate(hist.carets)

\* C26: after a forward delete at the end of line L, as fixed up, joined
\* line L+1 to it, a position of the next entry that lay on line L+1 at
\* column c is fixed up to line L at column c plus the length line L had
\* just before the join.
FixupAfterJoin ==
    JoinFixCase =>
        LET o == carets[mi.cur - 1].first
            to(p) == caret_position(hist.pre_m.smin.line,
                                    p.column + length_of(hist.pre_bs, hist.pre_m.smin.line))
        IN  /\ carets[mi.cur].first.line = o.line + 1 =>
                  mi.rpos.first = to(carets[mi.cur].first)
            /\ carets[mi.cur].selection_end.line = o.line + 1 =>
                  mi.rpos.selection_end = to(carets[mi.cur].selection_end)

\* the last command is a forward delete at a pure caret of the document
\* that is not at the end of its line
ForwardInlineCase ==
    /\ hist.op = "txn"
    /\ hist.key = "del"
    /\ hist.ncmd >= 1
    /\ hist.pre_m.smin = hist.pre_m.smax
    /\ in_document(hist.pre_bs, hist.pre_m.smin)
    /\ hist.pre_m.smin.column < length_of(hist.pre_bs, hist.pre_m.smin.line)

\* what C27 states of the document and the caret: the command does not
\* fail, the line loses the character at the caret's column, the other
\* lines are as they were and the caret is where it was
ForwardInlineEffect ==
    /\ ~CmdFailed
    /\ CmdDone =>
          LET l == hist.pre_m.smin.line + 1
              old == all_lines(hist.pre_bs)
          IN  /\ all_lines(blocks) =
                     [old EXCEPT ![l].content = seq_erase(@, hist.pre_m.smin.column + 1)]
              /\ mi.rpos = hist.pre_m.rpos

\* C27 as stated: forward delete at a pure caret that is not at the end of
\* its line removes the character at the caret's column, leaves the caret's
\* column and records no column delta: the running column delta is the
\* same before and after the command.
ForwardInlineNoDelta ==
    ForwardInlineCase =>
        /\ ForwardInlineEffect
        /\ CmdDone => mi.dx = hist.pre_m.dx

\* C27: forward delete at a pure caret that is not at the end of its line
\* removes the character at the caret's column, leaves the caret's column
\* and counts the running column delta down by one.
ForwardInline ==
    ForwardInlineCase =>
        /\ ForwardInlineEffect
        /\ CmdDone => (mi.dx = hist.pre_m.dx - 1 /\ mi.dy = hist.pre_m.dy)

\* the second caret of a line deletes after the first one did
ForwardInlineWitness ==
    /\ CmdDone
    /\ ForwardInlineCase
    /\ mi.cur = 2
    /\ mi.dx = -2
    /\ hist.pre_m.smin.column = 1

\* the last command types "Z" at a caret of the document, pure or with a
\* selection
TypeCmdCase ==
    /\ hist.op = "txn"
    /\ hist.key = "Z"
    /\ hist.ncmd >= 1
    /\ in_document(hist.pre_bs, hist.pre_m.smin)
    /\ in_document(hist.pre_bs, hist.pre_m.smax)

\* the editor is in overwrite mode, the caret has no selection and is not
\* at the end of its line
OverwriteCase ==
    /\ ~hist.ins
    /\ hist.pre_m.smin = hist.pre_m.smax
    /\ hist.pre_m.smin.column < length_of(hist.pre_bs, hist.pre_m.smin.line)

\* C28: typing a character other than a newline does not fail.  In
\* overwrite mode, at a caret without selection that is not at the end of
\* its line, it replaces the character at the caret's column: the line
\* keeps its length and the column delta its value.  In every other case
\* it inserts the character where the caret, or its deleted selection,
\* starts: the line grows by one character and the column delta by one.
\* Either way the other lines are as they were and the caret is pure, one
\* column behind the character.
OverwriteOrInsert ==
    TypeCmdCase =>
        /\ ~CmdFailed
        /\ CmdDone =>
              LET l1 == hist.pre_m.smin.line + 1
                  l2 == hist.pre_m.smax.line + 1
                  c1 == hist.pre_m.smin.column
                  c2 == hist.pre_m.smax.column
                  old == all_lines(hist.pre_bs)
                  new == all_lines(blocks)
              IN  /\ Len(new) = Len(old) - (l2 - l1)
                  /\ \A i \in 1..Len(old) :
                        /\ i < l1 => new[i] = old[i]
                        /\ i > l2 => new[i - (l2 - l1)] = old[i]
                  /\ mi.rpos = pure_at(caret_position(l1 - 1, c1 + 1))
                  /\ IF OverwriteCase
                     THEN /\ new[l1] = [old[l1] EXCEPT !.content[c1 + 1] = "Z"]
                          /\ mi.dx = hist.pre_m.dx
                     ELSE /\ new[l1] = line(SubSeq(old[l1].content, 1, c1) \o <<"Z">>
                                                \o SubSeq(old[l2].content, c2 + 1,
                                                          Len(old[l2].content)),
                                            old[l2].ending_type)
                          /\ mi.dx = hist.pre_m.dx - (c2 - c1) + 1

\* a character is overwritten
OverwriteOrInsertWitness ==
    /\ CmdDone
    /\ TypeCmdCase
    /\ OverwriteCase
    /\ mi.cur = 2
    /\ all_lines(blocks)[hist.pre_m.smin.line + 1].content = <<"Z", "Z", "b">>

\* the last command is a move by key k, without shift, of an entry with a
\* selection
CollapseCase(k) ==
    /\ hist.op = "txn"
    /\ hist.key = k
    /\ hist.ncmd >= 1
    /\ ~pure(hist.pre_m.rpos)

\* C29: the left key, without shift, on an entry with a selection does not
\* fail and leaves the pure caret at the selection's least position, the
\* right key the pure caret at its greatest position, whichever of the two
\* the entry's anchor is; neither steps one position further.
CollapseOnMove ==
    /\ CollapseCase("left") =>
          /\ ~CmdFailed
          /\ CmdDone => mi.rpos = pure_at(range_min(hist.pre_m.rpos))
    /\ CollapseCase("right") =>
          /\ ~CmdFailed
          /\ CmdDone => mi.rpos = pure_at(range_max(hist.pre_m.rpos))

\* the left key collapses a selection whose anchor is its greatest position
\* and that does not start at the beginning of the document
CollapseOnMoveWitness ==
    /\ CmdDone
    /\ CollapseCase("left")
    /\ pos_lt(hist.pre_m.rpos.selection_end, hist.pre_m.rpos.first)
    /\ hist.pre_m.rpos.selection_end # caret_position(0, 0)
    /\ mi.rpos = pure_at(hist.pre_m.rpos.selection_end)

\* a transaction of a movement key
MoveTxn == hist.op = "txn" /\ hist.key \in MoveKeys

\* C30: a transaction that only moves carets, with or without selection,
\* leaves the document as it was (blocks, lines, contents and tags), raises
\* no notification of a modification and keeps both running deltas at 0; a
\* move with selection leaves the entry the selection_end it had before the
\* transaction.
MoveFrame ==
    MoveTxn =>
        /\ blocks = hist.blocks
        /\ notified = hist.notified
        /\ pc \in {"body", "next", "end"} =>
              (mi.dx = 0 /\ mi.dy = 0 /\ ~mi.modified)
        /\ (CmdDone /\ hist.key \in {"shift_left", "shift_right", "shift_up", "shift_down"}) =>
              mi.rpos.selection_end = hist.carets[mi.cur].selection_end

\* the second entry, a selection, is moved with shift to another selection
MoveFrameWitness ==
    /\ MoveTxn
    /\ CmdDone
    /\ hist.key = "shift_left"
    /\ mi.cur = 2
    /\ ~pure(hist.carets[2])
    /\ ~pure(mi.rpos)
    /\ mi.rpos.first # hist.carets[2].first
    /\ num_lines(blocks) >= 2


(***************************************************************************)
(* Properties of the document's blocks and line handles.                   *)
(***************************************************************************)
\* C31: after load_from_file on a fresh editor_context every block holds
\* at least one line and at most advised_lines, and every block but the
\* last holds exactly advised_lines: a block is opened only when the one
\* before is full.
BlocksFilled ==
    pc \in {"loaded", "saved"} =>
        /\ blocks # <<>>
        /\ \A i \in 1..Len(blocks) :
              /\ Len(blocks[i]) >= 1
              /\ Len(blocks[i]) <= advised_lines
              /\ i < Len(blocks) => Len(blocks[i]) = advised_lines

\* a text of five lines is loaded into three blocks
BlocksFilledWitness ==
    /\ pc = "loaded"
    /\ Len(blocks) = 3
    /\ Len(blocks[3]) = 1

\* the last operation ran to its end on a document of two lines or more
DocOpDone ==
    /\ hist.op \in {"insert", "insert_after", "erase", "erase_after"}
    /\ fail = "none"
    /\ num_lines(hist.pre_bs) >= 2

\* C32: the loaded document, and the document after every insert,
\* insert_after, erase or erase_after that ran to its end on a document of
\* two lines or more, has no empty block; erase returns the handle of the
\* line that followed the erased one, or of the line before it where the
\* erased line was the last of the document.
NoEmptyBlock ==
    /\ (hist.op = "none" \/ DocOpDone) =>
          /\ blocks # <<>>
          /\ \A i \in 1..Len(blocks) : blocks[i] # <<>>
    /\ (DocOpDone /\ hist.op = "erase") =>
          /\ hist.ret = at(blocks, IF hist.it = before_end(hist.pre_bs)
                                   THEN line_index(hist.pre_bs, hist.it) - 1
                                   ELSE line_index(hist.pre_bs, hist.it))
          /\ deref(blocks, hist.ret) =
                 all_lines(hist.pre_bs)[IF hist.it = before_end(hist.pre_bs)
                                        THEN line_index(hist.pre_bs, hist.it)
                                        ELSE line_index(hist.pre_bs, hist.it) + 2]

\* an erase removed the only line of a block that is not the last, and the
\* block with it
NoEmptyBlockWitness ==
    /\ DocOpDone
    /\ hist.op = "erase"
    /\ hist.n = 2
    /\ Len(hist.pre_bs[hist.it[1]]) = 1
    /\ hist.it[1] < Len(hist.pre_bs)
    /\ Len(blocks) = Len(hist.pre_bs) - 1

\* the handle it incremented k times
RECURSIVE inc_n(_, _, _)
inc_n(bs, it, k) == IF k = 0 THEN it ELSE inc_n(bs, iter_inc(bs, it), k - 1)

\* the handles of the lines of the document bs
Handles(bs) == {h \in (1..Len(bs)) \X (1..(MaxEditTextLen + 1 + MaxDocOps)) : h[2] <= Len(bs[h[1]])}

\* C33: in every document, with blocks of any sizes, at(i) for an index i
\* below the line count is begin() incremented i times; a handle on the
\* last line of a block but the last increments to the first line of the
\* next block, decrementing undoes incrementing, and begin() incremented
\* line count - 1 times is before_end().
HandlesAgree ==
    (pc = "idle" /\ fail = "none") =>
        /\ \A i \in 0..(num_lines(blocks) - 1) :
              /\ at(blocks, i) = inc_n(blocks, begin_iter, i)
              /\ line_index(blocks, at(blocks, i)) = i
        /\ \A h \in Handles(blocks) :
              /\ (h[2] = Len(blocks[h[1]]) /\ h[1] < Len(blocks)) =>
                    iter_inc(blocks, h) = <<h[1] + 1, 1>>
              /\ h # before_end(blocks) =>
                    iter_dec(blocks, iter_inc(blocks, h)) = h
        /\ inc_n(blocks, begin_iter, num_lines(blocks) - 1) = before_end(blocks)

\* inserts and erases made the blocks uneven: three lines, then one
HandlesAgreeWitness ==
    /\ pc = "idle"
    /\ fail = "none"
    /\ hist.op = "erase"
    /\ Len(blocks) = 2
    /\ Len(blocks[1]) = 3
    /\ Len(blocks[2]) = 1

\* the number of lines of the document bs with the ending tag t
tag_count(bs, t) == Cardinality({i \in 1..num_lines(bs) : all_lines(bs)[i].ending_type = t})

\* C34: on the loaded document auto_set_line_ending selects a line ending
\* other than none that no other ending outnumbers: r where r is more
\* frequent than n and than rn, otherwise n where n is more frequent than
\* rn, otherwise rn, also where the document has no line ending at all.
MajorityEnding ==
    hist.op = "none" =>
        /\ le \in {"r", "n", "rn"}
        /\ \A t \in {"r", "n", "rn"} : tag_count(blocks, t) <= tag_count(blocks, le)
        /\ le = "r" <=> (/\ tag_count(blocks, "r") > tag_count(blocks, "n")
                         /\ tag_count(blocks, "r") > tag_count(blocks, "rn"))
        /\ le = "n" <=> (/\ ~(/\ tag_count(blocks, "r") > tag_count(blocks, "n")
                              /\ tag_count(blocks, "r") > tag_count(blocks, "rn"))
                         /\ tag_count(blocks, "n") > tag_count(blocks, "rn"))

\* r and rn tie, ahead of n: rn is selected
MajorityEndingWitness ==
    /\ hist.op = "none"
    /\ le = "rn"
    /\ tag_count(blocks, "r") = 1
    /\ tag_count(blocks, "rn") = 1


\* C35: a transaction that starts while a mouse selection is in progress
\* (the caret set not empty) commits the selection to the caret set and
\* then visits every entry of the set exactly once: its cursor is the
\* entry after the visited ones, never an entry the commit erased, no
\* step is undefined, and at the end as many entries were visited as the
\* committed set holds.
SelectingTxn == hist.op = "txn" /\ hist.selecting /\ hist.carets # <<>>

CursorAfterCommit ==
    (SelectingTxn /\ pc = "body") => mi.cur = hist.ncmd + 1

CommitVisited ==
    SelectingTxn =>
        /\ fail # "ub"
        /\ pc \in {"body", "next", "end"} =>
               carets = add_caret(hist.carets, hist.current_selection).mp
        /\ CursorAfterCommit
        /\ pc = "end" => hist.ncmd = Len(carets)

\* C36: whenever a transaction starts and whenever it ends the live caret
\* set holds at least one entry: start() finds carets.begin() and end()
\* finds carets.rbegin() of the swapped set.
CaretsAtStartAndEnd ==
    /\ hist.op = "txn" => hist.carets # <<>>
    /\ pc = "end" => (IF fail = "none" THEN mi.newcs ELSE carets) # <<>>

\* C37: under every interleaving of the task threads and the pool thread a
\* task's status changes only along not_initiated -> running, running ->
\* completed, not_initiated -> cancel_requested, running ->
\* cancel_requested and cancel_requested -> cancelled, so completed and
\* cancelled are never left; and the assertion of _run, that a failed
\* start found cancel_requested, never fails.
StatusSteps ==
    {<<"not_initiated", "running">>, <<"running", "completed">>,
     <<"not_initiated", "cancel_requested">>, <<"running", "cancel_requested">>,
     <<"cancel_requested", "cancelled">>}

StatusChanges ==
    [][/\ \A t \in Tasks :
             task_st'[t] # task_st[t] => <<task_st[t], task_st'[t]>> \in StatusSteps
       /\ fail' # "assert"]_vars

\* one task was cancelled before it started, its assertion evaluated, and
\* another ran to completion while try_cancel was called three times
StatusChangesWitness ==
    /\ pool_log.calls = MaxCancels
    /\ \E t \in Tasks, u \in Tasks :
          /\ task_pc[t] = "cancel_start"
          /\ task_st[t] = "cancel_requested"
          /\ task_st[u] = "completed"

\* C38: try_cancel returns true exactly when its own call moved the status
\* to cancel_requested; a task for which a try_cancel returned true is
\* never completed and, once its thread is outside the operation, is
\* eventually cancelled; every task whose operation returned is eventually
\* completed or cancelled; a task leaves the pool only completed or
\* cancelled.
FinalStatus == {"completed", "cancelled"}

CancelSafety ==
    /\ pool_log.last.op = "try_cancel" =>
          (pool_log.last.ret <=>
              (pool_log.last.from # pool_log.last.to
               /\ pool_log.last.to = "cancel_requested"))
    /\ \A t \in pool_log.won : task_st[t] # "completed"
    /\ \A t \in Tasks :
          (task_pc[t] # "none" /\ t \notin pool_lst) => task_st[t] \in FinalStatus
    /\ (pool_log.last.op = "try_finish" /\ pool_log.last.ret) =>
          pool_log.last.from \in FinalStatus

CancelOutcome ==
    /\ []CancelSafety
    /\ \A t \in Tasks :
          /\ (t \in pool_log.won /\ task_pc[t] \in {"run", "returned", "cancel_finish"})
                 ~> (task_st[t] = "cancelled")
          /\ (task_pc[t] = "returned") ~> task_st[t] \in FinalStatus

\* a try_cancel returned true for a running task, a later one returned
\* false, and try_finish removed the task when it was cancelled
CancelOutcomeWitness ==
    \E t \in Tasks :
        /\ t \in pool_log.won
        /\ pool_log.calls >= 2
        /\ pool_log.last = [op |-> "try_finish", t |-> t, ret |-> TRUE,
                            from |-> "cancelled", to |-> "cancelled"]
        /\ t \notin pool_lst

\* C39 as stated: at most one mode is active; while a mode is active an
\* event is forwarded to it alone and no activator is called, and the mode
\* is dropped when its handler returns false; when no mode is active
\* every event is offered to the activators in list order up to the first
\* that returns a mode, which becomes the active mode.
FirstActivated(answers) ==
    IF \E i \in 1..NumActivators : answers[Activators[i]]
    THEN CHOOSE i \in 1..NumActivators :
            /\ answers[Activators[i]]
            /\ \A j \in 1..(i - 1) : ~answers[Activators[j]]
    ELSE NumActivators + 1

ForwardedToActive ==
    (dispatched.event # "none" /\ dispatched.before # nullptr) =>
        /\ dispatched.forwarded = <<dispatched.before>>
        /\ dispatched.called = <<>>
        /\ active = IF dispatched.stays THEN dispatched.before ELSE nullptr

OfferedInOrder ==
    LET k == FirstActivated(dispatched.answers)
    IN  /\ dispatched.forwarded = <<>>
        /\ dispatched.called =
               SubSeq(Activators, 1, IF k > NumActivators THEN NumActivators ELSE k)
        /\ active = IF k > NumActivators THEN nullptr ELSE Activators[k]

DispatchEveryEvent ==
    /\ active \in {nullptr} \cup {Activators[i] : i \in 1..NumActivators}
    /\ ForwardedToActive
    /\ (dispatched.event # "none" /\ dispatched.before = nullptr) => OfferedInOrder

\* C39 amended: the activators are offered the mouse-down, mouse-up,
\* mouse-move and capture-lost events only; an update, edit-operation or
\* viewport-changed event that finds no active mode calls no activator and
\* leaves the manager without an active mode.
DispatchEvent ==
    /\ active \in {nullptr} \cup {Activators[i] : i \in 1..NumActivators}
    /\ ForwardedToActive
    /\ (dispatched.event \in ActivatorEvents /\ dispatched.before = nullptr) =>
           OfferedInOrder
    /\ (dispatched.event \in ModeEvents /\ dispatched.before = nullptr) =>
           /\ dispatched.forwarded = <<>>
           /\ dispatched.called = <<>>
           /\ active = nullptr

\* a mouse event found no mode active, the first activator declined, the
\* second returned a mode and the third, which would have, was not called
DispatchEventWitness ==
    /\ dispatched.event = "mouse_down"
    /\ dispatched.before = nullptr
    /\ dispatched.answers = [i \in 1..NumActivators |-> i # 1]
    /\ dispatched.called = <<1, 2>>
    /\ active = 2

====
